---- MODULE Spec2Model ----
(***************************************************************************)
(* Request coordinator and resource reconciler of the terway daemon        *)
(* (daemon/daemon.go): AllocIP, ReleaseIP, GetIPInfo, the garbage          *)
(* collection loop, the pending-pod gate and the global RW lock.           *)
(*                                                                         *)
(* A handler is a sequence of atomic steps; a step runs the code between   *)
(* two points at which the goroutine can be suspended for long: waiting    *)
(* for the RW lock, or inside a ResourceManager call.  External            *)
(* collaborators (Kubernetes cache, store I/O, managers, request context)  *)
(* answer nondeterministically, failures included.                         *)
(***************************************************************************)
EXTENDS Integers, Sequences, FiniteSets, TLC

\* ------------------------------------------------------------------------
\* Program constants
\* ------------------------------------------------------------------------
daemonModeVPC == "VPC"
daemonModeENIMultiIP == "ENIMultiIP"
daemonModeENIOnly == "ENIOnly"
IfEth0 == "eth0"

podNetworkTypeVPCIP == "VPCIP"
podNetworkTypeVPCENI == "VPCENI"
podNetworkTypeENIMultiIP == "ENIMultiIP"

ResourceTypeVeth == "veth"
ResourceTypeENI == "eni"
ResourceTypeENIIP == "eniIp"
ResourceTypeEIP == "eip"

DaemonModes == {daemonModeVPC, daemonModeENIMultiIP, daemonModeENIOnly}
PodNetworkTypes == {podNetworkTypeVPCIP, podNetworkTypeVPCENI, podNetworkTypeENIMultiIP}
ResourceTypes == {ResourceTypeVeth, ResourceTypeENI, ResourceTypeENIIP, ResourceTypeEIP}

\* ------------------------------------------------------------------------
\* Bounds of the model
\* ------------------------------------------------------------------------
Threads == {"t1", "t2"}
Pods == {"p1", "p2"}
ContainerIDs == {"cA", "cB"}
ResIDs == {"r1", "r2"}
StickTimes == {0, 300}
CRDIfNames == {"eth0", "eth1"}
MaxAllocations == 1
IfNames == {"", "eth0", "eth1"}
MaxNetConfs == 3
MaxItems == 2

VARIABLES
    cfg,          \* networkService configuration fields, fixed by newNetworkService
    pendingPods,  \* networkService.pendingPods (sync.Map used as a set)
    readers,      \* RWMutex: number of goroutines holding the read lock
    writer,       \* RWMutex: "none", "waiting" (Lock() called, readers draining), "held"
    store,        \* networkService.resourceDB: pod key -> PodResources
    th,           \* per gRPC goroutine: handler, position and locals
    gc,           \* the garbage collection goroutine: position and locals
    env,          \* the workload: which goroutines, pods, answers and faults occur
    hist,         \* per pod, what the last AllocIP/ReleaseIP that returned has done
    call          \* a call of defaultForNetConf on its own: argument and result

vars == <<cfg, pendingPods, readers, writer, store, th, gc, env, hist, call>>

\* ------------------------------------------------------------------------
\* Data
\* ------------------------------------------------------------------------
\* types.PodResources{}: what getPodResource returns for an absent key (PodInfo == nil)
EmptyRes == [has |-> FALSE, type |-> "none", stick |-> 0, resources |-> <<>>,
             netNs |-> "none", cid |-> "none"]

\* no PodInfo (GetPod failed or not yet called)
NoPod == [type |-> "none", stick |-> 0, eip |-> FALSE, podENI |-> FALSE]

PodInfos == [type : PodNetworkTypes, stick : StickTimes, eip : BOOLEAN, podENI : BOOLEAN]

\* one PodENI allocation as far as the NetConf policy reads it
Allocations == [ifName : CRDIfNames, defaultRoute : BOOLEAN]

RECURSIVE SeqsUpTo(_, _)
SeqsUpTo(S, n) ==
    IF n = 0 THEN {<<>>}
    ELSE LET shorter == SeqsUpTo(S, n - 1)
         IN shorter \cup {Append(s, x) : s \in {q \in shorter : Len(q) = n - 1}, x \in S}

\* the orders in which the elements of a set can be listed: the records of
\* resourceDB.List(), the keys of a map ranged over
Orders(S) == {o \in [1..Cardinality(S) -> S] : \A i, j \in 1..Cardinality(S) : o[i] = o[j] => i = j}

\* what reading the PodENI custom resource can give: a NotFound error, another
\* failure (API error, trunk mismatch, empty CIDR, missing status entry), or
\* the list of allocations of the resource
PodENIReads ==
    {[kind |-> "notfound", allocs |-> <<>>], [kind |-> "error", allocs |-> <<>>]}
    \cup {[kind |-> "ok", allocs |-> a] : a \in SeqsUpTo(Allocations, MaxAllocations)}

\* locals of a handler; typeOK is what verifyPodNetworkType answered ("unset"
\* before the call); allocated, released and deleted record what the call
\* has done so far: items returned by Allocate, items passed to Release, and
\* whether a deletePodResource of the call succeeded; invalid whether a Release
\* of the call returned ErrInvalidState; crd what the PodENI read of the call
\* gave ("none" when there was no read, "empty" for a PodENI without allocations);
\* podIPs the resource whose addresses podinfo.PodIPs has been set to
IdleThread ==
    [op |-> "none", pc |-> "idle", pod |-> "none", cid |-> "none", netNs |-> "none",
     pinfo |-> NoPod, typeOK |-> "unset", old |-> EmptyRes, resources |-> <<>>,
     netConf |-> <<>>, err |-> "nil", ret |-> "none", rerr |-> "none", idx |-> 0,
     mgr |-> "none", prior |-> "", allocated |-> <<>>, released |-> <<>>,
     deleted |-> FALSE, invalid |-> FALSE, crd |-> "none", podIPs |-> "none"]

NoOutcome == [alloc |-> FALSE, cid |-> "none", stick |-> 0, put |-> FALSE, resources |-> <<>>]

NoSets == [t \in ResourceTypes |-> {}]

\* locals of the GC goroutine; putFailed and delFailed record the keys whose
\* resourceDB.Put or Delete returned an error in this tick, called the types
\* whose manager's GarbageCollection was invoked, cleaned the resource ids
\* whose kernel rules and routes the tick tried to delete, listed the keys in
\* the order resourceDB.List returned their records, failed the types whose
\* manager's GarbageCollection returned an error, err the listing whose error
\* ended the tick early
IdleGC ==
    [pc |-> "idle", podKeyMap |-> {}, seen |-> {}, inUseSet |-> NoSets, expireSet |-> NoSets,
     relateExpireList |-> <<>>, todo |-> {}, cur |-> "none", gcDone |-> TRUE,
     putFailed |-> {}, delFailed |-> {}, called |-> {}, cleaned |-> {}, listed |-> <<>>, failed |-> {},
     err |-> "nil"]

\* a NetConf as far as defaultForNetConf reads and writes it
NetConfs == [ifName : IfNames, defaultRoute : BOOLEAN]

\* no call of defaultForNetConf on its own
NoCall == [pc |-> "none", arg |-> <<>>, netConf |-> <<>>, err |-> "none"]

\* the startPeriodCheck goroutine between two ticks.  mapping is what its
\* GetResourceMapping call returned, listed the slice resourceDB.List gave
\* the CHECK loop (each record with its key), i the position of the loop,
\* checked the keys CHECK was invoked for, in order, failed those whose CHECK
\* returned an error, ended how the tick ended, withNs the keys whose record
\* had a netNs when the tick asked for the list
NoCheck ==
    [pc |-> "idle", mapping |-> "none", listed |-> <<>>, i |-> 0, checked |-> <<>>,
     failed |-> {}, ended |-> "none", withNs |-> {}]

\* ------------------------------------------------------------------------
\* Pure functions
\* ------------------------------------------------------------------------
\* variant: the mode test is gone
verifyPodNetworkTypeAny(podNetworkMode) == podNetworkMode \in PodNetworkTypes

\* variant: ENIOnly takes the VPC case
verifyPodNetworkTypeENIOnlyAsVPC(podNetworkMode) ==
    \/ /\ cfg.daemonMode \in {daemonModeVPC, daemonModeENIOnly}
       /\ podNetworkMode \in {podNetworkTypeVPCENI, podNetworkTypeVPCIP}
    \/ /\ cfg.daemonMode = daemonModeENIMultiIP
       /\ podNetworkMode = podNetworkTypeENIMultiIP

verifyPodNetworkType(podNetworkMode) ==
    \/ /\ cfg.daemonMode = daemonModeVPC
       /\ podNetworkMode \in {podNetworkTypeVPCENI, podNetworkTypeVPCIP}
    \/ /\ cfg.daemonMode = daemonModeENIMultiIP
       /\ podNetworkMode = podNetworkTypeENIMultiIP
    \/ /\ cfg.daemonMode = daemonModeENIOnly
       /\ podNetworkMode = podNetworkTypeVPCENI

\* variant: the empty interface name is not taken for the default interface
defaultIfEth0Only(name) == name = IfEth0

defaultIf(name) == name = "" \/ name = IfEth0

\* variant: the last element satisfying the test
LastDefaultIf(s, i) ==
    LET on == {j \in i..Len(s) : s[j].ifName = "" \/ s[j].ifName = IfEth0}
    IN IF on = {} THEN 0 ELSE CHOOSE j \in on : \A k \in on : k <= j

\* position of the first element of s satisfying the default-interface test, 0 if none
RECURSIVE FirstDefaultIf(_, _)
FirstDefaultIf(s, i) ==
    IF i > Len(s) THEN 0
    ELSE IF s[i].ifName = "" \/ s[i].ifName = IfEth0 THEN i
    ELSE FirstDefaultIf(s, i + 1)

\* the first loop of defaultForNetConf: "dup" when a second DefaultRoute is met,
\* otherwise the two flags
RECURSIVE ScanNetConf(_, _, _, _)
ScanNetConf(s, i, defaultRouteSet, defaultIfSet) ==
    IF i > Len(s) THEN [dup |-> FALSE, route |-> defaultRouteSet, if |-> defaultIfSet]
    ELSE IF s[i].defaultRoute /\ defaultRouteSet
         THEN [dup |-> TRUE, route |-> defaultRouteSet, if |-> defaultIfSet]
    ELSE ScanNetConf(s, i + 1, defaultRouteSet \/ s[i].defaultRoute,
                     defaultIfSet \/ defaultIf(s[i].ifName))

\* variant: the list is returned as it is, without the tests
defaultForNetConfUnchecked(netConf) == [err |-> "nil", netConf |-> netConf]

\* returns the error ("nil" for none) and the list as the call leaves it
defaultForNetConf(netConf) ==
    IF Len(netConf) = 0 THEN [err |-> "nil", netConf |-> netConf]
    ELSE LET scan == ScanNetConf(netConf, 1, FALSE, FALSE)
         IN IF scan.dup THEN [err |-> "default route is dumplicated", netConf |-> netConf]
            ELSE IF ~scan.if THEN [err |-> "default interface is not set", netConf |-> netConf]
            ELSE IF ~scan.route
                 THEN LET k == FirstDefaultIf(netConf, 1)
                      IN [err |-> "nil",
                          netConf |-> IF k = 0 THEN netConf
                                      ELSE [netConf EXCEPT ![k].defaultRoute = TRUE]]
            ELSE [err |-> "nil", netConf |-> netConf]

\* a tracing.PodMapping without a field set
NoMapping ==
    [name |-> "", localResID |-> "", remoteResID |-> "", podBindResID |-> "", valid |-> FALSE]

\* the first two loops of toResMapping: an entry for every id of
\* poolStats.GetLocal() and GetRemote()
PoolMappings(local, remote) ==
    [i \in local \cup remote |->
        [NoMapping EXCEPT !.localResID = IF i \in local THEN i ELSE "",
                          !.remoteResID = IF i \in remote THEN i ELSE ""]]

\* variant: an entry the pool does not know is valid at once
BindItemValid(all, name, res) ==
    IF res.type = ResourceTypeEIP THEN all
    ELSE IF res.id \notin DOMAIN all
    THEN all @@ (res.id :> [NoMapping EXCEPT !.name = name, !.podBindResID = res.id, !.valid = TRUE])
    ELSE LET old == [all[res.id] EXCEPT !.name = name, !.podBindResID = res.id]
         IN [all EXCEPT ![res.id] =
                IF old.podBindResID = old.localResID /\ old.localResID = old.remoteResID
                THEN [old EXCEPT !.valid = TRUE] ELSE old]

\* the body of the third loop for one item of the record of a pod
BindItem(all, name, res) ==
    IF res.type = ResourceTypeEIP THEN all
    ELSE IF res.id \notin DOMAIN all
    THEN all @@ (res.id :> [NoMapping EXCEPT !.name = name, !.podBindResID = res.id])
    ELSE LET old == [all[res.id] EXCEPT !.name = name, !.podBindResID = res.id]
         IN [all EXCEPT ![res.id] =
                IF old.podBindResID = old.localResID /\ old.localResID = old.remoteResID
                THEN [old EXCEPT !.valid = TRUE] ELSE old]

\* the third loop: the records from record i on, the items of record i from k on
RECURSIVE BindPods(_, _, _, _)
BindPods(all, pods, i, k) ==
    IF i > Len(pods) THEN all
    ELSE IF k > Len(pods[i].resources) THEN BindPods(all, pods, i + 1, 1)
    ELSE BindPods(BindItem(all, pods[i].name, pods[i].resources[k]), pods, i, k + 1)

\* the last loop: an entry without a pod whose local and remote ids agree is valid
MarkIdle(all) ==
    [i \in DOMAIN all |->
        IF all[i].name = "" /\ all[i].localResID = all[i].remoteResID
        THEN [all[i] EXCEPT !.valid = TRUE] ELSE all[i]]

\* the order of Go strings on the names and ids in use
StrRank(str) ==
    CASE str = "" -> 0
      [] str = "p1" -> 1
      [] str = "p2" -> 2
      [] str = "r1" -> 3
      [] OTHER -> 4

\* the less function given to sort.Slice: Name descending, then RemoteResID ascending
MappingLess(a, b) ==
    IF a.name # b.name THEN StrRank(a.name) > StrRank(b.name)
    ELSE StrRank(a.remoteResID) < StrRank(b.remoteResID)

\* the slices toResMapping may return: the entries of the map, each once, in
\* an order sort.Slice can leave them in
toResMapping(local, remote, pods) ==
    LET all == MarkIdle(BindPods(PoolMappings(local, remote), pods, 1, 1))
    IN {[k \in 1..Len(o) |-> all[o[k]]] :
           o \in {q \in Orders(DOMAIN all) :
                    \A k \in 1..(Len(q) - 1) : ~MappingLess(all[q[k + 1]], all[q[k]])}}

\* PodResources.GetResourceItemByType
GetResourceItemByType(res, t) == SelectSeq(res.resources, LAMBDA r : r.type = t)

\* variant: the first item of the type, however many there are
PriorIDFirst(old, t) ==
    LET items == GetResourceItemByType(old, t)
    IN IF old.has /\ Len(items) >= 1 THEN items[1].id ELSE ""

\* the oldXxxID computation shared by allocateVeth/ENI/ENIMultiIP/EIP
PriorID(old, t) ==
    LET items == GetResourceItemByType(old, t)
    IN IF old.has /\ Len(items) = 1 THEN items[1].id ELSE ""

\* networkService.mgrForResource as newNetworkService builds it:
\* "mgr" a manager, "nil" a key holding a nil manager, "absent" no key
MgrEntry(t) ==
    CASE cfg.daemonMode = daemonModeVPC ->
           IF t \in {ResourceTypeENI, ResourceTypeVeth} THEN "mgr" ELSE "absent"
      [] cfg.daemonMode = daemonModeENIMultiIP ->
           IF t = ResourceTypeENIIP THEN "mgr"
           ELSE IF t = ResourceTypeEIP THEN (IF cfg.eipResMgr THEN "mgr" ELSE "nil")
           ELSE "absent"
      [] OTHER ->
           IF t = ResourceTypeENI THEN "mgr"
           ELSE IF t = ResourceTypeEIP THEN (IF cfg.eipResMgr THEN "mgr" ELSE "nil")
           ELSE "absent"

\* getResourceManagerForRes(resType) != nil
getResourceManagerForRes(t) == MgrEntry(t) = "mgr"

\* requestCRD asks for the PodENI only in these cases, else it returns (nil, nil)
CRDRequested(pinfo) == cfg.ipamCRD \/ (pinfo.podENI /\ cfg.enableTrunk)

\* NetConfs assembled from the allocations of a PodENI, one per allocation
CRDNetConfs(allocs) ==
    [i \in 1..Len(allocs) |-> [ifName |-> allocs[i].ifName, defaultRoute |-> allocs[i].defaultRoute]]

\* variant: the appended NetConf names a secondary interface
PoolNetConfEth1 == [ifName |-> "eth1", defaultRoute |-> TRUE]

\* the NetConf AllocIP appends for a pool resource
PoolNetConf == [ifName |-> "", defaultRoute |-> TRUE]


\* ------------------------------------------------------------------------
\* Workloads: the answers the external collaborators may give
\* ------------------------------------------------------------------------
FaultKinds == {"getpod", "getres", "crd", "allocate", "put", "delete", "release", "ctx",
               "stat", "localpods", "list", "gc"}

\* one goroutine serving one pod, every answer and every failure
FullEnv ==
    [threads |-> {"t1"}, pods |-> {"p1"}, cids |-> ContainerIDs, resIDs |-> ResIDs,
     podInfos |-> PodInfos, crds |-> PodENIReads, faults |-> FaultKinds, track |-> FALSE]

\* the same with one resource id and without the failures that make a call
\* fail before it has done anything, the outcome of each call recorded in hist
PairEnv == [FullEnv EXCEPT !.resIDs = {"r1"}, !.faults = {"release", "ctx"}, !.track = TRUE]

\* two goroutines and two pods racing each other and the GC loop
ConcEnv ==
    [threads |-> Threads, pods |-> Pods, cids |-> {"cA"}, resIDs |-> {"r1"},
     podInfos |-> [type : {podNetworkTypeENIMultiIP}, stick : {0},
                   eip : {FALSE}, podENI : {FALSE}],
     crds |-> {[kind |-> "notfound", allocs |-> <<>>]}, faults |-> {"put"}, track |-> FALSE]

\* the same race with the failures that end a handler early or roll it back
GateEnv == [ConcEnv EXCEPT !.faults = {"getpod", "getres", "allocate", "put", "release"}]

\* one goroutine serving one pod beside the GC loop and the period check
LiveEnv == [ConcEnv EXCEPT !.threads = {"t1"}, !.pods = {"p1"}, !.faults = {"put", "list", "mapping"}]

\* whether a call of the given kind succeeds
Ok(kind) == IF kind \in env.faults THEN BOOLEAN ELSE {TRUE}

\* whether the request context is found cancelled
Cancelled == IF "ctx" \in env.faults THEN BOOLEAN ELSE {FALSE}

\* the PodInfo values GetPod may return.  EipInfo.PodEip is read only behind
\* n.eipResMgr != nil and PodENI only behind n.enableTrunk (and, in requestCRD,
\* only when ipamType is not CRD): where a flag cannot be read it is left unset
GetPodResults ==
    {pi \in env.podInfos : /\ pi.eip => cfg.eipResMgr
                           /\ pi.podENI => (cfg.enableTrunk /\ ~cfg.ipamCRD)}

\* ------------------------------------------------------------------------
\* Initial state: newNetworkService
\* ------------------------------------------------------------------------
Configs ==
    {c \in [daemonMode : DaemonModes, eipResMgr : BOOLEAN, ipamCRD : BOOLEAN, enableTrunk : BOOLEAN] :
        /\ c.daemonMode = daemonModeVPC => ~c.eipResMgr
        /\ (c.daemonMode = daemonModeENIOnly /\ c.enableTrunk) => ~c.eipResMgr}

InitService ==
    /\ pendingPods = {}
    /\ readers = 0
    /\ writer = "none"
    /\ store = [p \in Pods |-> EmptyRes]
    /\ th = [t \in Threads |-> IdleThread]
    /\ gc = IdleGC
    /\ hist = [p \in Pods |-> NoOutcome]
    /\ call = NoCall

Init ==
    /\ env = FullEnv
    /\ cfg \in Configs
    /\ InitService

InitPair ==
    /\ env = PairEnv
    /\ cfg \in Configs
    /\ InitService

InitConc ==
    /\ env = ConcEnv
    /\ cfg = [daemonMode |-> daemonModeENIMultiIP, eipResMgr |-> FALSE,
              ipamCRD |-> FALSE, enableTrunk |-> FALSE]
    /\ InitService

\* ------------------------------------------------------------------------
\* Scheduling
\* ------------------------------------------------------------------------
\* No reply is pending.  A reply is delivered as soon as its handler has
\* returned: Return touches nothing but the goroutine's own locals and commutes
\* with every other step, so the states in which a reply lingers while others
\* run add no behaviour; every other step waits for Quiet.
Quiet == \A t \in Threads : th[t].pc # "done"

\* ------------------------------------------------------------------------
\* The embedded sync.RWMutex
\* ------------------------------------------------------------------------
\* variant: a reader that does not wait for the writer
RLockIgnoringWriter == readers' = readers + 1

\* n.RLock() returns: no writer holds the lock or waits for it
RLock ==
    /\ writer = "none"
    /\ readers' = readers + 1

\* variant: the read lock is kept
RUnlockMissing == readers' = readers

\* n.RUnlock()
RUnlock == readers' = readers - 1

\* n.RLock() directly followed by n.RUnlock() around one read
RLocked == writer = "none"

\* variant: a writer that does not wait for the readers
LockIgnoringReaders == writer = "waiting"

\* n.Lock() returns: it was called and the readers have drained
Lock ==
    /\ writer = "waiting"
    /\ readers = 0

\* ------------------------------------------------------------------------
\* Handler entry and exit shared by AllocIP and ReleaseIP
\* ------------------------------------------------------------------------
\* variant: the key is never found
LoadOrStoreMiss(p) == FALSE

\* the "loaded" result of pendingPods.LoadOrStore(key, struct{}{})
LoadOrStore(p) == p \in pendingPods

\* pendingPods.LoadOrStore on entry: a key already present rejects the call
Enter(t, op, p, cid) ==
    /\ th[t].pc = "idle"
    /\ t \in env.threads /\ p \in env.pods /\ cid \in env.cids
    /\ LET me == [IdleThread EXCEPT !.op = op, !.pod = p, !.cid = cid, !.netNs = "ns"]
       IN IF LoadOrStore(p)
          THEN /\ th' = [th EXCEPT ![t] = [me EXCEPT !.pc = "done", !.ret = "resource processing"]]
               /\ UNCHANGED pendingPods
          ELSE /\ pendingPods' = pendingPods \cup {p}
               /\ th' = [th EXCEPT ![t] = [me EXCEPT !.pc = "rlock"]]
    /\ UNCHANGED <<cfg, readers, writer, store, gc, env, hist, call>>

\* what a returning handler leaves in hist: for an AllocIP that succeeded, the
\* request's containerID, the pod's IPStickTime and the items it persisted
Outcome(me) ==
    IF me.op = "alloc" /\ me.ret = "nil"
    THEN [alloc |-> TRUE, cid |-> me.cid, stick |-> me.pinfo.stick, put |-> Len(me.resources) > 0,
          resources |-> me.resources]
    ELSE NoOutcome

\* variant: the key stays
PendingDeleteNone(p) == pendingPods

\* the set after the deferred n.pendingPods.Delete(key)
PendingDelete(p) == pendingPods \ {p}

\* the last deferred calls, n.RUnlock() and n.pendingPods.Delete(key): the
\* handler has returned and its reply is on its way
HandlerExit(t) ==
    /\ Quiet
    /\ th[t].pc = "unlock"
    /\ RUnlock
    /\ pendingPods' = PendingDelete(th[t].pod)
    /\ th' = [th EXCEPT ![t].pc = "done"]
    /\ hist' = IF env.track THEN [hist EXCEPT ![th[t].pod] = Outcome(th[t])] ELSE hist
    /\ UNCHANGED <<cfg, writer, store, gc, env, call>>

\* the reply is delivered and the goroutine that served the request is free
Return(t) ==
    /\ th[t].pc = "done"
    /\ th' = [th EXCEPT ![t] = IdleThread]
    /\ UNCHANGED <<cfg, pendingPods, readers, writer, store, gc, env, hist, call>>

\* ------------------------------------------------------------------------
\* AllocIP
\* ------------------------------------------------------------------------
\* variant: no rollback
AllocReturnNoRollback(me) == [me EXCEPT !.pc = "unlock"]

\* the return statement was reached with local err and ctx resources as in me:
\* the deferred rollback closure runs first
AllocReturn(me) ==
    IF me.err # "nil" /\ Len(me.resources) > 0
    THEN [me EXCEPT !.pc = "rollback", !.idx = 1]
    ELSE [me EXCEPT !.pc = "unlock"]

\* variant: the cancellation is returned without being assigned to err
AllocFinishErrUnset(me, cancelled) ==
    IF cancelled THEN AllocReturn([me EXCEPT !.ret = "error on grpc connection"])
    ELSE AllocReturn([me EXCEPT !.ret = "nil"])

\* the ctx.Err() test at the end of AllocIP and the return after it
AllocFinish(me, cancelled) ==
    IF cancelled THEN AllocReturn([me EXCEPT !.err = "ctx", !.ret = "error on grpc connection"])
    ELSE AllocReturn([me EXCEPT !.ret = "nil"])

AllocIP(t, p, cid) == Quiet /\ Enter(t, "alloc", p, cid)

\* RLock, GetPod, getPodResource, verifyPodNetworkType
AllocLocked(t) ==
    /\ Quiet
    /\ th[t].op = "alloc" /\ th[t].pc = "rlock"
    /\ RLock
    /\ \E podOk \in Ok("getpod"), pod \in GetPodResults, getOk \in Ok("getres") :
         LET me == th[t] IN
         th' = [th EXCEPT ![t] =
                  IF ~podOk
                  THEN [me EXCEPT !.pc = "unlock", !.err = "getpod", !.ret = "error get pod info"]
                  ELSE IF ~getOk
                  THEN AllocReturn([me EXCEPT !.pinfo = pod, !.err = "getres",
                                              !.ret = "error get pod resources from db"])
                  ELSE IF ~verifyPodNetworkType(pod.type)
                  THEN AllocReturn([me EXCEPT !.pinfo = pod, !.old = store[me.pod], !.typeOK = "rejected",
                                              !.ret = "unexpect pod network type"])
                  ELSE [me EXCEPT !.pinfo = pod, !.old = store[me.pod], !.typeOK = "accepted",
                                  !.pc = "plan"]]
    /\ UNCHANGED <<cfg, pendingPods, writer, store, gc, env, hist, call>>

\* start of a manager Allocate call by allocateVeth/ENI/ENIMultiIP/EIP
BeginAllocate(me, t) ==
    [me EXCEPT !.pc = "inAllocate", !.mgr = t, !.prior = PriorID(me.old, t)]

\* what multiIPFromCRD / exclusiveENIFromCRD make of a PodENI read
CRDFailed(crd) == crd.kind # "ok" \/ Len(crd.allocs) = 0

\* the answer of requestCRD: the failure of the read, or, for a PodENI that
\* was read, whether it has allocations
CRDAnswer(crd) ==
    IF crd.kind # "ok" THEN crd.kind ELSE IF Len(crd.allocs) = 0 THEN "empty" ELSE "ok"

\* what the PodENI read of a handler gives for a pod: multiIPFromCRD is called
\* for every ENIMultiIP pod and reads under the condition of requestCRD,
\* exclusiveENIFromCRD is called for a VPCENI pod when ipamType is CRD
CRDRead(pinfo, crd) ==
    IF \/ pinfo.type = podNetworkTypeENIMultiIP /\ CRDRequested(pinfo)
       \/ pinfo.type = podNetworkTypeVPCENI /\ cfg.ipamCRD
    THEN CRDAnswer(crd)
    ELSE "none"

\* the switch on podinfo.PodNetworkType, up to the first manager call or the return
AllocPlan(t) ==
    /\ Quiet
    /\ th[t].op = "alloc" /\ th[t].pc = "plan"
    /\ \E crd \in env.crds, cancelled \in Cancelled :
         LET me == [th[t] EXCEPT !.crd = CRDRead(th[t].pinfo, crd)] IN
         th' = [th EXCEPT ![t] =
           CASE me.pinfo.type = podNetworkTypeENIMultiIP ->
                  IF CRDRequested(me.pinfo) /\ CRDFailed(crd)
                  THEN AllocReturn([me EXCEPT !.err = "crd", !.ret = "error wait pod eni info"])
                  ELSE LET netConf == IF CRDRequested(me.pinfo) THEN CRDNetConfs(crd.allocs) ELSE <<>>
                           defaultIfSet == \E i \in 1..Len(netConf) : defaultIf(netConf[i].ifName)
                           d == defaultForNetConf(netConf)
                       IN IF ~defaultIfSet
                          THEN BeginAllocate([me EXCEPT !.netConf = netConf], ResourceTypeENIIP)
                          ELSE IF d.err # "nil"
                          THEN AllocReturn([me EXCEPT !.netConf = netConf, !.err = "netconf", !.ret = d.err])
                          ELSE AllocFinish([me EXCEPT !.netConf = d.netConf], cancelled)
             [] me.pinfo.type = podNetworkTypeVPCENI ->
                  IF cfg.ipamCRD
                  THEN IF CRDFailed(crd)
                       THEN AllocReturn([me EXCEPT !.err = "crd", !.ret = "error wait pod eni info"])
                       ELSE LET d == defaultForNetConf(CRDNetConfs(crd.allocs))
                            IN IF d.err # "nil"
                               THEN AllocReturn([me EXCEPT !.err = "netconf", !.ret = d.err])
                               ELSE AllocFinish([me EXCEPT !.netConf = d.netConf], cancelled)
                  ELSE BeginAllocate(me, ResourceTypeENI)
             [] OTHER -> BeginAllocate(me, ResourceTypeVeth)]
    /\ UNCHANGED <<cfg, pendingPods, readers, writer, store, gc, env, hist, call>>

\* variant: the record is persisted without the sandbox of the request
NewResNoSandbox(me) ==
    [has |-> TRUE, type |-> me.pinfo.type, stick |-> me.pinfo.stick,
     resources |-> me.resources, netNs |-> "none", cid |-> "none"]

\* the PodResources AllocIP persists
NewRes(me) ==
    [has |-> TRUE, type |-> me.pinfo.type, stick |-> me.pinfo.stick,
     resources |-> me.resources, netNs |-> me.netNs, cid |-> me.cid]

\* ToResItems of types.ENIIP, types.ENI, types.EIP and types.Veth (package
\* types): the one ResourceItem of the resource, its type and its id
ToResItems(res) == <<res>>

\* variant: the EIP is allocated whatever the service and the pod say
WantsEIPAlways(me) == TRUE

\* the test in front of allocateEIP
WantsEIP(me) == cfg.eipResMgr /\ me.pinfo.eip

\* a manager Allocate call returns; AllocIP runs on to the next manager call or
\* through resourceDB.Put, defaultForNetConf and the ctx test to its return
AllocateReturn(t) ==
    /\ Quiet
    /\ th[t].op = "alloc" /\ th[t].pc = "inAllocate"
    /\ \E out \in env.resIDs \cup {"error"}, putOk \in Ok("put"), cancelled \in Cancelled :
         LET me == th[t]
             item == [type |-> me.mgr, id |-> out]
             got == [me EXCEPT !.resources = @ \o ToResItems(item),
                               !.allocated = @ \o ToResItems(item),
                               !.mgr = "none", !.prior = ""]
             netConf == Append(me.netConf, PoolNetConf)
             d == defaultForNetConf(netConf)
         IN
         /\ out = "error" => "allocate" \in env.faults
         /\ IF out = "error"
            THEN /\ th' = [th EXCEPT ![t] =
                      AllocReturn([me EXCEPT !.err = "allocate", !.ret = "error get allocated resource",
                                             !.mgr = "none", !.prior = ""])]
                 /\ UNCHANGED store
            ELSE IF me.mgr \in {ResourceTypeENIIP, ResourceTypeENI} /\ WantsEIP(me)
            THEN /\ th' = [th EXCEPT ![t] =
                      BeginAllocate([got EXCEPT !.podIPs = item], ResourceTypeEIP)]
                 /\ UNCHANGED store
            ELSE IF ~putOk
            THEN /\ th' = [th EXCEPT ![t] =
                      AllocReturn([got EXCEPT !.err = "put", !.ret = "error put resource into store"])]
                 /\ UNCHANGED store
            ELSE /\ store' = [store EXCEPT ![me.pod] = NewRes(got)]
                 /\ th' = [th EXCEPT ![t] =
                      IF me.pinfo.type = podNetworkTypeENIMultiIP /\ d.err # "nil"
                      THEN AllocReturn([got EXCEPT !.netConf = netConf, !.err = "netconf", !.ret = d.err])
                      ELSE AllocFinish([got EXCEPT !.netConf = IF me.pinfo.type = podNetworkTypeENIMultiIP
                                                                THEN d.netConf ELSE netConf],
                                       cancelled)]
    /\ UNCHANGED <<cfg, pendingPods, readers, writer, gc, env, hist, call>>

\* variant: the loop ends at the first failure
RollbackNextUntilError(me) ==
    IF me.idx < Len(me.resources) /\ me.err = "nil"
    THEN [me EXCEPT !.pc = "rollback", !.idx = @ + 1]
    ELSE [me EXCEPT !.pc = "unlock"]

\* the rollback loop goes on to its next item or, past the last, ends
RollbackNext(me) ==
    IF me.idx < Len(me.resources)
    THEN [me EXCEPT !.pc = "rollback", !.idx = @ + 1]
    ELSE [me EXCEPT !.pc = "unlock"]

\* one iteration of the rollback loop up to its manager call:
\* deletePodResource, then the manager lookup
RollbackStep(t) ==
    /\ Quiet
    /\ th[t].op = "alloc" /\ th[t].pc = "rollback"
    /\ \E delOk \in Ok("delete") :
         LET me == [th[t] EXCEPT !.err = IF delOk THEN "nil" ELSE "delete",
                                 !.deleted = @ \/ delOk]
             res == me.resources[me.idx]
         IN
         /\ store' = IF delOk THEN [store EXCEPT ![me.pod] = EmptyRes] ELSE store
         /\ th' = [th EXCEPT ![t] =
              IF ~getResourceManagerForRes(res.type)
              THEN RollbackNext(me)
              ELSE [me EXCEPT !.pc = "inRelease", !.mgr = res.type]]
    /\ UNCHANGED <<cfg, pendingPods, readers, writer, gc, env, hist, call>>

\* what a manager Release can return
ReleaseOutcomes ==
    IF "release" \in env.faults THEN {"nil", "ErrInvalidState", "error"} ELSE {"nil"}

\* the manager Release call of the rollback returns
RollbackReleaseReturn(t) ==
    /\ Quiet
    /\ th[t].op = "alloc" /\ th[t].pc = "inRelease"
    /\ \E out \in ReleaseOutcomes :
         LET me == th[t]
             done == [me EXCEPT !.released = Append(@, me.resources[me.idx]),
                                !.err = out, !.mgr = "none"]
         IN th' = [th EXCEPT ![t] = RollbackNext(done)]
    /\ UNCHANGED <<cfg, pendingPods, readers, writer, store, gc, env, hist, call>>

\* ------------------------------------------------------------------------
\* ReleaseIP
\* ------------------------------------------------------------------------
ReleaseIP(t, p, cid) == Quiet /\ Enter(t, "release", p, cid)

\* variant: the IPStickTime test is gone
ReleasesItemAnyStick(me, res) == getResourceManagerForRes(res.type)

\* the loop calls Release for an item: its manager is configured and the pod
\* is not sticky
ReleasesItem(me, res) == getResourceManagerForRes(res.type) /\ me.pinfo.stick = 0

\* index of the next stored item, from i on, for which the loop calls Release;
\* 0 if there is none
RECURSIVE NextRelease(_, _)
NextRelease(me, i) ==
    IF i > Len(me.old.resources) THEN 0
    ELSE IF ReleasesItem(me, me.old.resources[i]) THEN i
    ELSE NextRelease(me, i + 1)

\* variant: the loop ends after its first Release
ReleaseContinueOnce(me, i, cancelled) ==
    LET j == IF i = 1 THEN NextRelease(me, i) ELSE 0
    IN IF j # 0
       THEN [me EXCEPT !.pc = "inRelease", !.idx = j, !.mgr = me.old.resources[j].type]
       ELSE IF cancelled
       THEN [me EXCEPT !.pc = "unlock", !.err = "ctx", !.ret = "error on grpc connection"]
       ELSE [me EXCEPT !.pc = "unlock", !.ret = "nil"]

\* the loop over oldRes.Resources from item i up to its next manager call, or,
\* past its end, the ctx test and the return
ReleaseContinue(me, i, cancelled) ==
    LET j == NextRelease(me, i)
    IN IF j # 0
       THEN [me EXCEPT !.pc = "inRelease", !.idx = j, !.mgr = me.old.resources[j].type]
       ELSE IF cancelled
       THEN [me EXCEPT !.pc = "unlock", !.err = "ctx", !.ret = "error on grpc connection"]
       ELSE [me EXCEPT !.pc = "unlock", !.ret = "nil"]

\* variant: the containerID test is gone
StaleSandboxNever(cid, res) == FALSE

\* the request does not come from the sandbox the record was stored for
StaleSandbox(cid, res) == res.cid # "none" /\ cid # res.cid

\* RLock, GetPod, getPodResource, the mode and containerID tests, start of the loop
ReleaseLocked(t) ==
    /\ Quiet
    /\ th[t].op = "release" /\ th[t].pc = "rlock"
    /\ RLock
    /\ \E podOk \in Ok("getpod"), pod \in GetPodResults, getOk \in Ok("getres"),
          cancelled \in Cancelled :
         LET me == th[t]
             read == [me EXCEPT !.pinfo = pod, !.old = store[me.pod],
                                !.typeOK = IF verifyPodNetworkType(pod.type)
                                           THEN "accepted" ELSE "rejected"]
         IN
         th' = [th EXCEPT ![t] =
                  IF ~podOk
                  THEN [me EXCEPT !.pc = "unlock", !.err = "getpod", !.ret = "error get pod info"]
                  ELSE IF ~getOk
                  THEN [me EXCEPT !.pinfo = pod, !.pc = "unlock", !.err = "getres",
                                  !.ret = "error get pod resources from db"]
                  ELSE IF ~verifyPodNetworkType(pod.type)
                  THEN [read EXCEPT !.pc = "unlock", !.ret = "nil"]
                  ELSE IF StaleSandbox(me.cid, read.old)
                  THEN [read EXCEPT !.pc = "unlock", !.ret = "nil"]
                  ELSE ReleaseContinue(read, 1, cancelled)]
    /\ UNCHANGED <<cfg, pendingPods, writer, store, gc, env, hist, call>>

\* variant: ErrInvalidState is an error like any other
ReleaseFailedStrict(out) == out # "nil"

\* the test on the error of Release: ErrInvalidState is let through
ReleaseFailed(out) == out # "nil" /\ out # "ErrInvalidState"

\* the manager Release call of the loop returns; deletePodResource follows
ReleaseReturn(t) ==
    /\ Quiet
    /\ th[t].op = "release" /\ th[t].pc = "inRelease"
    /\ \E out \in ReleaseOutcomes, delOk \in Ok("delete"), cancelled \in Cancelled :
         LET me == [th[t] EXCEPT !.released = Append(@, th[t].old.resources[th[t].idx]),
                                 !.mgr = "none", !.invalid = @ \/ out = "ErrInvalidState"]
         IN
         IF ReleaseFailed(out)
         THEN /\ th' = [th EXCEPT ![t] = [me EXCEPT !.pc = "unlock", !.err = out,
                           !.ret = "error release request network resource"]]
              /\ UNCHANGED store
         ELSE IF ~delOk
         THEN /\ th' = [th EXCEPT ![t] = [me EXCEPT !.pc = "unlock", !.err = "delete",
                           !.ret = "error delete resource from db"]]
              /\ UNCHANGED store
         ELSE /\ store' = [store EXCEPT ![me.pod] = EmptyRes]
              /\ th' = [th EXCEPT ![t] =
                   ReleaseContinue([me EXCEPT !.deleted = TRUE], me.idx + 1, cancelled)]
    /\ UNCHANGED <<cfg, pendingPods, readers, writer, gc, env, hist, call>>

\* ------------------------------------------------------------------------
\* GetIPInfo
\* ------------------------------------------------------------------------
\* GetPod and verifyPodNetworkType; no pending-pod gate
GetIPInfo(t, p, cid) ==
    /\ Quiet
    /\ th[t].pc = "idle"
    /\ t \in env.threads /\ p \in env.pods /\ cid \in env.cids
    /\ \E podOk \in Ok("getpod"), pod \in GetPodResults :
         LET me == [IdleThread EXCEPT !.op = "info", !.pod = p, !.cid = cid]
         IN th' = [th EXCEPT ![t] =
              IF ~podOk
              THEN [me EXCEPT !.pc = "done", !.err = "getpod", !.ret = "error get pod info"]
              ELSE IF ~verifyPodNetworkType(pod.type)
              THEN [me EXCEPT !.pc = "done", !.pinfo = pod, !.typeOK = "rejected",
                              !.ret = "unexpect pod network type get info"]
              ELSE [me EXCEPT !.pc = "infoRLock", !.pinfo = pod, !.typeOK = "accepted"]]
    /\ UNCHANGED <<cfg, pendingPods, readers, writer, store, gc, env, hist, call>>

\* variant: the item is asked for anew instead of being looked up
InfoStatAllocating(me, t, netConf) ==
    [me EXCEPT !.pc = "inAllocate", !.mgr = t, !.netConf = netConf, !.prior = PriorID(me.old, t)]

\* start of the manager Stat call for the stored item of type t
InfoStat(me, t, netConf) == [me EXCEPT !.pc = "inStat", !.mgr = t, !.netConf = netConf]

\* the tail of the ENIMultiIP case: defaultForNetConf, then the reply
InfoFinishMultiIP(me, netConf) ==
    LET d == defaultForNetConf(netConf)
    IN IF d.err # "nil"
       THEN [me EXCEPT !.pc = "done", !.err = "netconf", !.ret = d.err]
       ELSE [me EXCEPT !.pc = "done", !.ret = "nil", !.netConf = d.netConf]

\* RLock, getPodResource, RUnlock, then the containerID test and the switch on
\* the pod network type up to the manager Stat call or the return
InfoRead(t) ==
    /\ Quiet
    /\ th[t].op = "info" /\ th[t].pc = "infoRLock"
    /\ RLocked
    /\ \E getOk \in Ok("getres"), crd \in env.crds :
         LET got == [th[t] EXCEPT !.old = store[th[t].pod]]
             me == [got EXCEPT !.crd = CRDRead(got.pinfo, crd)]
             crdConfs == IF CRDFailed(crd) THEN <<>> ELSE CRDNetConfs(crd.allocs)
         IN
         th' = [th EXCEPT ![t] =
           IF ~getOk
           THEN [th[t] EXCEPT !.pc = "done", !.err = "getres",
                              !.ret = "error get pod resources from db"]
           ELSE IF StaleSandbox(got.cid, got.old)
           THEN [got EXCEPT !.pc = "done", !.ret = "nil"]
           ELSE CASE me.pinfo.type = podNetworkTypeENIMultiIP ->
                  \* err2 of multiIPFromCRD is not the variable the test reads:
                  \* a failed read leaves netConfs nil and the case runs on
                  LET netConf == IF CRDRequested(me.pinfo) THEN crdConfs ELSE <<>>
                      defaultIfSet == \E i \in 1..Len(netConf) : defaultIf(netConf[i].ifName)
                  IN IF ~defaultIfSet /\ Len(GetResourceItemByType(me.old, ResourceTypeENIIP)) > 0
                     THEN InfoStat(me, ResourceTypeENIIP, netConf)
                     ELSE InfoFinishMultiIP(me, netConf)
             [] me.pinfo.type = podNetworkTypeVPCIP ->
                  [me EXCEPT !.pc = "done", !.ret = "nil", !.netConf = <<PoolNetConf>>]
             [] OTHER ->
                  IF cfg.ipamCRD
                  THEN LET d == defaultForNetConf(crdConfs)
                       IN IF CRDFailed(crd)
                          THEN [me EXCEPT !.pc = "done", !.ret = "nil",
                                  !.rerr = IF crd.kind = "notfound" THEN "ErrCRDNotFound" ELSE "none"]
                          ELSE IF d.err # "nil"
                          THEN [me EXCEPT !.pc = "done", !.ret = "nil"]
                          ELSE [me EXCEPT !.pc = "done", !.ret = "nil", !.netConf = d.netConf]
                  ELSE IF Len(GetResourceItemByType(me.old, ResourceTypeENI)) > 0
                  THEN InfoStat(me, ResourceTypeENI, <<>>)
                  ELSE [me EXCEPT !.pc = "done", !.ret = "nil"]]
    /\ UNCHANGED <<cfg, pendingPods, readers, writer, store, gc, env, hist, call>>

\* the manager Stat call returns; a failed Stat only skips the NetConf
StatReturn(t) ==
    /\ Quiet
    /\ th[t].op = "info" /\ th[t].pc = "inStat"
    /\ \E ok \in Ok("stat") :
         LET me == [th[t] EXCEPT !.mgr = "none"]
         IN th' = [th EXCEPT ![t] =
              IF me.pinfo.type = podNetworkTypeENIMultiIP
              THEN InfoFinishMultiIP(me, IF ok THEN Append(me.netConf, [ifName |-> "", defaultRoute |-> FALSE])
                                         ELSE me.netConf)
              ELSE [me EXCEPT !.pc = "done", !.ret = "nil",
                              !.netConf = IF ok THEN <<PoolNetConf>> ELSE <<>>]]
    /\ UNCHANGED <<cfg, pendingPods, readers, writer, store, gc, env, hist, call>>

\* ------------------------------------------------------------------------
\* Garbage collection loop
\* ------------------------------------------------------------------------
\* variant: the id is not taken out of the expired map
MarkInUseOnly(acc, res) == [acc EXCEPT !.inUseSet[res.type] = @ \cup {res.id}]

\* an item of a record counted as present: out of expireSet, into inUseSet
MarkInUse(acc, res) ==
    [acc EXCEPT !.expireSet[res.type] = @ \ {res.id},
                !.inUseSet[res.type] = @ \cup {res.id}]

\* the inner loop over resRelate.Resources, from item i on
RECURSIVE ScanItems(_, _, _, _)
ScanItems(items, i, podExist, acc) ==
    IF i > Len(items) THEN acc
    ELSE LET res == items[i]
             a1 == [acc EXCEPT !.seen = @ \cup {res.type}]
         IN IF res.id \in a1.inUseSet[res.type]
            THEN ScanItems(items, i + 1, podExist, a1)
            ELSE IF podExist
            THEN ScanItems(items, i + 1, podExist, MarkInUse(a1, res))
            ELSE ScanItems(items, i + 1, podExist,
                     [a1 EXCEPT !.expireSet[res.type] = @ \cup {res.id}])

\* variant: the local pods are not looked at
PodExistNever(p, podKeyMap) == FALSE

\* the lookup of the key of a record in podKeyMap
PodExist(p, podKeyMap) == p \in podKeyMap

\* variant: the IPStickTime of the record is not looked at
StickyNever(live, resRelate) == FALSE

\* the record of a pod that is gone is kept for one more tick
Sticky(live, resRelate) == ~live /\ resRelate.stick # 0

\* the loop over resRelateList in the order listed, from record i on; acc holds
\* the sets built so far and the store as the sticky rewrites leave it
RECURSIVE ScanRecords(_, _, _, _, _)
ScanRecords(order, i, podKeyMap, putOk, acc) ==
    IF i > Len(order) THEN acc
    ELSE LET p == order[i]
             resRelate == store[p]
             live == PodExist(p, podKeyMap)
             sticky == Sticky(live, resRelate)
             a1 == IF sticky
                   THEN IF putOk[p]
                        THEN [acc EXCEPT !.store[p] = [resRelate EXCEPT !.stick = 0]]
                        ELSE acc
                   ELSE IF ~live
                   THEN [acc EXCEPT !.relateExpireList = Append(@, p)]
                   ELSE acc
         IN ScanRecords(order, i + 1, podKeyMap, putOk,
                        ScanItems(resRelate.resources, 1, live \/ sticky, a1))

\* variant: every resource type has its maps
GCTypesAll(acc) == ResourceTypes

\* the keys of inUseSet, over which the loop calling the managers ranges: the
\* types of the items met in the listed records
GCTypes(acc) == acc.seen

\* the ticker fires: n.Lock() is called and waits for the readers to drain
GCTick ==
    /\ Quiet
    /\ gc.pc = "idle"
    /\ writer' = "waiting"
    /\ gc' = [gc EXCEPT !.pc = "lock"]
    /\ UNCHANGED <<cfg, pendingPods, readers, store, th, env, hist, call>>

\* variant: the error of a listing is logged and the tick goes on without lists
GCEarlyExitIgnored(kind) == [IdleGC EXCEPT !.pc = "collect", !.err = kind]

\* the error of GetLocalPods or of resourceDB.List: the tick goes to its
\* n.Unlock() and continue
GCEarlyExit(kind) == [IdleGC EXCEPT !.pc = "unlock", !.err = kind]

\* the write lock is acquired; GetLocalPods, resourceDB.List and the loop that
\* builds inUseSet, expireSet and relateExpireList, with its sticky rewrites
GCLocked ==
    /\ Quiet
    /\ gc.pc = "lock"
    /\ Lock
    /\ \E podsOk \in Ok("localpods"), listOk \in Ok("list"), podKeyMap \in SUBSET env.pods,
          order \in Orders({p \in Pods : store[p].has}), putOk \in [Pods -> Ok("put")] :
         IF ~podsOk \/ ~listOk
         THEN /\ writer' = "held"
              /\ gc' = GCEarlyExit(IF ~podsOk THEN "localpods" ELSE "list")
              /\ UNCHANGED store
         ELSE LET acc == ScanRecords(order, 1, podKeyMap, putOk,
                             [store |-> store, seen |-> {}, inUseSet |-> NoSets,
                              expireSet |-> NoSets, relateExpireList |-> <<>>])
              IN /\ writer' = "held"
                 /\ store' = acc.store
                 /\ gc' = [pc |-> "collect", podKeyMap |-> podKeyMap, seen |-> acc.seen,
                           inUseSet |-> acc.inUseSet, expireSet |-> acc.expireSet,
                           relateExpireList |-> acc.relateExpireList,
                           todo |-> GCTypes(acc), cur |-> "none", gcDone |-> TRUE,
                           putFailed |-> {p \in Pods : /\ store[p].has
                                                        /\ Sticky(p \in podKeyMap, store[p])
                                                        /\ ~putOk[p]},
                           delFailed |-> {}, called |-> {}, cleaned |-> {}, listed |-> order, failed |-> {},
                           err |-> "nil"]
    /\ UNCHANGED <<cfg, pendingPods, readers, th, env, hist, call>>

\* the loop over inUseSet reaches a type: the lookup in mgrForResource and the
\* start of that manager's GarbageCollection.  A key holding a nil manager
\* passes the lookup and the call dereferences nil.
GCCall(mgrType) ==
    /\ Quiet
    /\ gc.pc = "collect"
    /\ mgrType \in gc.todo
    /\ gc' = CASE MgrEntry(mgrType) = "mgr" ->
                    [gc EXCEPT !.pc = "inGC", !.cur = mgrType, !.todo = @ \ {mgrType},
                               !.called = @ \cup {mgrType}]
               [] MgrEntry(mgrType) = "nil" -> [gc EXCEPT !.pc = "panic", !.cur = mgrType]
               [] OTHER -> [gc EXCEPT !.todo = @ \ {mgrType}]
    /\ UNCHANGED <<cfg, pendingPods, readers, writer, store, th, env, hist, call>>

\* variant: a failure ends the loop over the managers
AfterGCStopping(g, ok) ==
    [g EXCEPT !.pc = "collect", !.cur = "none", !.gcDone = @ /\ ok,
              !.failed = IF ok THEN @ ELSE @ \cup {g.cur},
              !.todo = IF ok THEN @ ELSE {}]

\* the error of GarbageCollection is logged and clears gcDone; the loop goes on
AfterGC(g, ok) ==
    [g EXCEPT !.pc = "collect", !.cur = "none", !.gcDone = @ /\ ok,
              !.failed = IF ok THEN @ ELSE @ \cup {g.cur}]

\* the manager's GarbageCollection returns
GCCallReturn ==
    /\ Quiet
    /\ gc.pc = "inGC"
    /\ \E ok \in Ok("gc") : gc' = AfterGC(gc, ok)
    /\ UNCHANGED <<cfg, pendingPods, readers, writer, store, th, env, hist, call>>

\* the keys of relateExpireList
Expired(g) == {g.relateExpireList[i] : i \in 1..Len(g.relateExpireList)}

\* strings.SplitAfterN(resID, ".", 2) on the resource ids in use
SplitAfterN(resID) ==
    CASE resID = "eni1.10.0.0.1" -> <<"eni1.", "10.0.0.1">>
      [] resID = "eni1.10.0.0.2" -> <<"eni1.", "10.0.0.2">>
      [] resID = "eni1.x" -> <<"eni1.", "x">>
      [] OTHER -> <<resID>>

\* net.ParseCIDR(ip + "/32") returns no error
ParseCIDR(ip) == ip \in {"10.0.0.1", "10.0.0.2"}

\* the loop over expireSet[ResourceTypeENIIP] in the order the map is ranged
\* over, from id i on: the ids whose rules and routes are deleted
RECURSIVE CleanRules(_, _, _)
CleanRules(order, i, acc) ==
    IF i > Len(order) THEN acc
    ELSE LET list == SplitAfterN(order[i])
         IN IF Len(list) <= 1 THEN CleanRules(order, i + 1, acc)
            ELSE IF ~ParseCIDR(list[2]) THEN acc
            ELSE CleanRules(order, i + 1, acc \cup {order[i]})

\* after the managers: when all succeeded, the kernel rule and route cleanup and
\* the deletion of the expired records
GCCleanup ==
    /\ Quiet
    /\ gc.pc = "collect"
    /\ gc.todo = {}
    /\ \E delOk \in [Pods -> Ok("delete")], order \in Orders(gc.expireSet[ResourceTypeENIIP]) :
         /\ store' = [p \in Pods |->
                        IF gc.gcDone /\ p \in Expired(gc) /\ delOk[p] THEN EmptyRes ELSE store[p]]
         /\ gc' = [gc EXCEPT !.pc = "unlock",
                             !.delFailed = {p \in Expired(gc) : gc.gcDone /\ ~delOk[p]},
                             !.cleaned = IF gc.gcDone THEN CleanRules(order, 1, {}) ELSE {}]
    /\ UNCHANGED <<cfg, pendingPods, readers, writer, th, env, hist, call>>

\* n.Unlock() at the end of the tick or on one of its two early exits
GCUnlock ==
    /\ Quiet
    /\ gc.pc = "unlock"
    /\ writer' = "none"
    /\ gc' = IdleGC
    /\ UNCHANGED <<cfg, pendingPods, readers, store, th, env, hist, call>>

\* ------------------------------------------------------------------------
\* startPeriodCheck
\* ------------------------------------------------------------------------
\* the period elapses: the tick starts with its call of GetResourceMapping,
\* whose n.RLock() may have to wait
PeriodTick ==
    /\ call.pc = "idle"
    /\ call' = [NoCheck EXCEPT !.pc = "mapRLock"]
    /\ UNCHANGED <<cfg, pendingPods, readers, writer, store, th, gc, env, hist>>

\* GetResourceMapping has the read lock: under daemon mode VPC it unlocks
\* and returns nil at once, else it calls the manager's GetResourceMapping
MappingLocked ==
    /\ call.pc = "mapRLock"
    /\ IF cfg.daemonMode = daemonModeVPC
       THEN /\ RLocked
            /\ call' = [call EXCEPT !.pc = "chkRLock", !.mapping = "nil"]
            /\ UNCHANGED readers
       ELSE /\ RLock
            /\ call' = [call EXCEPT !.pc = "inMapping"]
    /\ UNCHANGED <<cfg, pendingPods, writer, store, th, gc, env, hist>>

\* the manager's GetResourceMapping returns: on its error the lock is
\* released and the error returned; else resourceDB.List, the release of the
\* lock, and the error of List or the result of toResMapping.  The result is
\* only logged and reported as pod events.
MappingReturn ==
    /\ call.pc = "inMapping"
    /\ \E mgrOk \in Ok("mapping"), listOk \in Ok("list") :
         call' = [call EXCEPT !.pc = "chkRLock",
                              !.mapping = IF ~mgrOk THEN "manager error"
                                          ELSE IF ~listOk THEN "list error" ELSE "ok"]
    /\ RUnlock
    /\ UNCHANGED <<cfg, pendingPods, writer, store, th, gc, env, hist>>

\* n.RLock() of the CNI CHECK part returns
CheckLocked ==
    /\ call.pc = "chkRLock"
    /\ RLock
    /\ call' = [call EXCEPT !.pc = "listing"]
    /\ UNCHANGED <<cfg, pendingPods, writer, store, th, gc, env, hist>>

\* res.NetNs != nil
HasNetNs(rec) == rec.netNs # "none"

\* the loop over podResList from position i on: the position of the next
\* record CHECK is invoked for, 0 when the loop ends
RECURSIVE NextChecked(_, _)
NextChecked(listed, i) ==
    IF i > Len(listed) THEN 0
    ELSE IF HasNetNs(listed[i].res) THEN i
    ELSE NextChecked(listed, i + 1)

\* the loop is at position i: CheckNetwork is about to be called, or the
\* closure returns
CheckAt(c, i) ==
    IF i = 0 THEN [c EXCEPT !.pc = "idle", !.i = 0, !.ended = "done"]
    ELSE [c EXCEPT !.pc = "checking", !.i = i]

\* resourceDB.List and n.RUnlock(); the error of List ends the tick, and so
\* does the error of reading the CNI configuration file; else the loop starts
CheckListed ==
    /\ call.pc = "listing"
    /\ \E listOk \in Ok("list"), confOk \in Ok("conf"),
          order \in Orders({p \in Pods : store[p].has}) :
         LET listed == [k \in 1..Len(order) |-> [key |-> order[k], res |-> store[order[k]]]]
             me == [call EXCEPT !.withNs = {q \in Pods : store[q].has /\ store[q].netNs # "none"}]
         IN call' = IF ~listOk THEN [me EXCEPT !.pc = "idle", !.ended = "list error"]
                    ELSE IF ~confOk
                    THEN [me EXCEPT !.pc = "idle", !.listed = listed, !.ended = "conf error"]
                    ELSE CheckAt([me EXCEPT !.listed = listed], NextChecked(listed, 1))
    /\ RUnlock
    /\ UNCHANGED <<cfg, pendingPods, writer, store, th, gc, env, hist>>

\* cniCfg.CheckNetwork is called for the record at position i
CheckCall ==
    /\ call.pc = "checking"
    /\ call' = [call EXCEPT !.pc = "inCheck", !.checked = Append(@, call.listed[call.i].key)]
    /\ UNCHANGED <<cfg, pendingPods, readers, writer, store, th, gc, env, hist>>

\* variant: the error of a CHECK ends the loop
AfterCheckStopping(c, ok) ==
    IF ok THEN CheckAt(c, NextChecked(c.listed, c.i + 1))
    ELSE CheckAt([c EXCEPT !.failed = @ \cup {c.listed[c.i].key}], 0)

\* the error of a CHECK is logged and the loop goes on
AfterCheck(c, ok) ==
    CheckAt([c EXCEPT !.failed = IF ok THEN @ ELSE @ \cup {c.listed[c.i].key}],
            NextChecked(c.listed, c.i + 1))

\* CheckNetwork returns, or its context times out
CheckReturn ==
    /\ call.pc = "inCheck"
    /\ \E ok \in Ok("check") : call' = AfterCheck(call, ok)
    /\ UNCHANGED <<cfg, pendingPods, readers, writer, store, th, gc, env, hist>>

\* ------------------------------------------------------------------------
\* Specifications
\* ------------------------------------------------------------------------
Next ==
    \/ \E t \in Threads : Return(t)
    \/ \E t \in Threads, p \in Pods, cid \in ContainerIDs : AllocIP(t, p, cid)
    \/ \E t \in Threads : AllocLocked(t)
    \/ \E t \in Threads : AllocPlan(t)
    \/ \E t \in Threads : AllocateReturn(t)
    \/ \E t \in Threads : RollbackStep(t)
    \/ \E t \in Threads : RollbackReleaseReturn(t)
    \/ \E t \in Threads, p \in Pods, cid \in ContainerIDs : ReleaseIP(t, p, cid)
    \/ \E t \in Threads : ReleaseLocked(t)
    \/ \E t \in Threads : ReleaseReturn(t)
    \/ \E t \in Threads, p \in Pods, cid \in ContainerIDs : GetIPInfo(t, p, cid)
    \/ \E t \in Threads : InfoRead(t)
    \/ \E t \in Threads : StatReturn(t)
    \/ \E t \in Threads : HandlerExit(t)
    \/ GCTick
    \/ GCLocked
    \/ \E m \in ResourceTypes : GCCall(m)
    \/ GCCallReturn
    \/ GCCleanup
    \/ GCUnlock

\* one goroutine, one pod, every answer of the collaborators
Spec == Init /\ [][Next]_vars

\* one goroutine, one pod, calls that follow one another
SpecPair == InitPair /\ [][Next]_vars

\* two goroutines and two pods racing each other and the GC loop
SpecConc == InitConc /\ [][Next]_vars

\* two goroutines and two pods, every exit path of AllocIP and ReleaseIP
InitGate ==
    /\ env = GateEnv
    /\ cfg = [daemonMode |-> daemonModeENIMultiIP, eipResMgr |-> FALSE,
              ipamCRD |-> FALSE, enableTrunk |-> FALSE]
    /\ InitService

SpecGate == InitGate /\ [][Next]_vars

\* defaultForNetConf called on its own, on every list of up to MaxNetConfs entries
InitNetConf ==
    /\ env = FullEnv
    /\ cfg = [daemonMode |-> daemonModeENIMultiIP, eipResMgr |-> FALSE,
              ipamCRD |-> FALSE, enableTrunk |-> FALSE]
    /\ pendingPods = {}
    /\ readers = 0
    /\ writer = "none"
    /\ store = [p \in Pods |-> EmptyRes]
    /\ th = [t \in Threads |-> IdleThread]
    /\ gc = IdleGC
    /\ hist = [p \in Pods |-> NoOutcome]
    /\ call \in {[pc |-> "called", arg |-> s, netConf |-> s, err |-> "none"] :
                    s \in SeqsUpTo(NetConfs, MaxNetConfs)}

\* the call runs to its return: the list as it leaves it and its error
CallDefaultForNetConf ==
    /\ call.pc = "called"
    /\ LET d == defaultForNetConf(call.arg)
       IN call' = [call EXCEPT !.pc = "returned", !.netConf = d.netConf, !.err = d.err]
    /\ UNCHANGED <<cfg, pendingPods, readers, writer, store, th, gc, env, hist>>

NextNetConf == CallDefaultForNetConf

SpecNetConf == InitNetConf /\ [][NextNetConf]_vars

\* toResMapping called on its own: every set of local and remote ids and every
\* list of up to two records of up to MaxItems items
MappedItems == [type : {ResourceTypeENIIP, ResourceTypeEIP}, id : ResIDs]

MappedPods ==
    LET recs == [name : Pods, resources : SeqsUpTo(MappedItems, MaxItems)]
    IN {<<>>} \cup {<<a>> : a \in recs}
              \cup {s \in {<<a, b>> : a \in recs, b \in recs} : s[1].name # s[2].name}

InitResMapping ==
    /\ env = FullEnv
    /\ cfg = [daemonMode |-> daemonModeENIMultiIP, eipResMgr |-> TRUE,
              ipamCRD |-> FALSE, enableTrunk |-> FALSE]
    /\ pendingPods = {}
    /\ readers = 0
    /\ writer = "none"
    /\ store = [p \in Pods |-> EmptyRes]
    /\ th = [t \in Threads |-> IdleThread]
    /\ gc = IdleGC
    /\ hist = [p \in Pods |-> NoOutcome]
    /\ call \in [pc : {"called"}, local : SUBSET ResIDs, remote : SUBSET ResIDs,
                  pods : MappedPods, mapping : {<<>>}]

\* the call runs to its return: one of the slices it may return
CallToResMapping ==
    /\ call.pc = "called"
    /\ \E mapping \in toResMapping(call.local, call.remote, call.pods) :
          call' = [call EXCEPT !.pc = "returned", !.mapping = mapping]
    /\ UNCHANGED <<cfg, pendingPods, readers, writer, store, th, gc, env, hist>>

NextResMapping == CallToResMapping

SpecResMapping == InitResMapping /\ [][NextResMapping]_vars

\* allocateVeth/ENI/ENIMultiIP/EIP called on their own: no record, and every
\* record of up to MaxItems items of any types, for every type allocated
PriorRecords ==
    {EmptyRes} \cup
    {[has |-> TRUE, type |-> pt, stick |-> 0, resources |-> items, netNs |-> "ns", cid |-> "cA"] :
        pt \in PodNetworkTypes,
        items \in SeqsUpTo([type : ResourceTypes, id : ResIDs], MaxItems)}

InitPrior ==
    /\ env = FullEnv
    /\ cfg = [daemonMode |-> daemonModeENIMultiIP, eipResMgr |-> TRUE,
              ipamCRD |-> FALSE, enableTrunk |-> FALSE]
    /\ pendingPods = {}
    /\ readers = 0
    /\ writer = "none"
    /\ store = [p \in Pods |-> EmptyRes]
    /\ th = [t \in Threads |-> IdleThread]
    /\ gc = IdleGC
    /\ hist = [p \in Pods |-> NoOutcome]
    /\ call \in [pc : {"called"}, old : PriorRecords, mgr : ResourceTypes, prior : {"unset"}]

\* the call reaches the manager's Allocate: the priorID it passes
CallAllocate ==
    /\ call.pc = "called"
    /\ call' = [call EXCEPT !.pc = "inAllocate", !.prior = PriorID(call.old, call.mgr)]
    /\ UNCHANGED <<cfg, pendingPods, readers, writer, store, th, gc, env, hist>>

NextPrior == CallAllocate

SpecPrior == InitPrior /\ [][NextPrior]_vars

\* the GC loop on its own, over the records earlier calls have left in the
\* store: the services that run without a PodENI controller
GCConfigs == {c \in Configs : ~c.ipamCRD /\ ~c.enableTrunk}

\* the ids a manager gives its resources: an ENI-IP id is "<eniID>.<ip>", and
\* ids that are not of that form are among those the cleanup may meet
IDsOf(t) ==
    CASE t = ResourceTypeENIIP -> {"eni1.10.0.0.1", "eni1.10.0.0.2", "eni1", "eni1.x"}
      [] t = ResourceTypeEIP -> {"e1"}
      [] OTHER -> ResIDs

\* the type of the item AllocIP allocates first for a pod network type
MainType(podNetworkType) ==
    CASE podNetworkType = podNetworkTypeENIMultiIP -> ResourceTypeENIIP
      [] podNetworkType = podNetworkTypeVPCENI -> ResourceTypeENI
      [] OTHER -> ResourceTypeVeth

\* the records AllocIP persists under configuration c
StoredRecords(c) ==
    {[has |-> TRUE, type |-> pt, stick |-> st, resources |-> items, netNs |-> "ns", cid |-> "cA"] :
        pt \in {x \in PodNetworkTypes :
                  \/ c.daemonMode = daemonModeVPC /\ x \in {podNetworkTypeVPCENI, podNetworkTypeVPCIP}
                  \/ c.daemonMode = daemonModeENIMultiIP /\ x = podNetworkTypeENIMultiIP
                  \/ c.daemonMode = daemonModeENIOnly /\ x = podNetworkTypeVPCENI},
        st \in StickTimes,
        items \in {<<[type |-> ResourceTypeENIIP, id |-> i]>> : i \in IDsOf(ResourceTypeENIIP)}
                  \cup {<<[type |-> ResourceTypeENI, id |-> i]>> : i \in IDsOf(ResourceTypeENI)}
                  \cup {<<[type |-> ResourceTypeVeth, id |-> i]>> : i \in IDsOf(ResourceTypeVeth)}
                  \cup {<<[type |-> mt, id |-> i], [type |-> ResourceTypeEIP, id |-> e]>> :
                           mt \in {ResourceTypeENIIP, ResourceTypeENI},
                           i \in IDsOf(ResourceTypeENIIP) \cup IDsOf(ResourceTypeENI),
                           e \in IDsOf(ResourceTypeEIP)}}

\* a record as AllocIP builds it: the first item of the type of the pod, its
\* id one of that type, an EIP item only with an EIP manager and not in VPCIP
WellBuilt(c, r) ==
    /\ r.resources[1].type = MainType(r.type)
    /\ r.resources[1].id \in IDsOf(r.resources[1].type)
    /\ Len(r.resources) = 2 => (c.eipResMgr /\ r.type # podNetworkTypeVPCIP)

GCEnv ==
    [threads |-> {}, pods |-> Pods, cids |-> {"cA"}, resIDs |-> ResIDs,
     podInfos |-> PodInfos, crds |-> PodENIReads,
     faults |-> {"localpods", "list", "put", "delete", "gc"}, track |-> FALSE]

InitGC ==
    /\ env = GCEnv
    /\ cfg \in GCConfigs
    /\ pendingPods = {}
    /\ readers = 0
    /\ writer = "none"
    /\ store \in [Pods -> {EmptyRes} \cup {r \in StoredRecords(cfg) : WellBuilt(cfg, r)}]
    /\ th = [t \in Threads |-> IdleThread]
    /\ gc = IdleGC
    /\ hist = [p \in Pods |-> NoOutcome]
    /\ call = NoCall

NextGC ==
    \/ GCTick
    \/ GCLocked
    \/ \E m \in ResourceTypes : GCCall(m)
    \/ GCCallReturn
    \/ GCCleanup
    \/ GCUnlock

SpecGC == InitGC /\ [][NextGC]_vars

\* the GC loop after a restart: the store is on disk, so it holds the records
\* an earlier run persisted, under the same daemon mode with or without the
\* EIP pool
InitRestart ==
    /\ env = GCEnv
    /\ cfg \in GCConfigs
    /\ pendingPods = {}
    /\ readers = 0
    /\ writer = "none"
    /\ store \in [Pods -> {EmptyRes} \cup
                     {r \in StoredRecords(cfg) :
                        \E c \in GCConfigs : c.daemonMode = cfg.daemonMode /\ WellBuilt(c, r)}]
    /\ th = [t \in Threads |-> IdleThread]
    /\ gc = IdleGC
    /\ hist = [p \in Pods |-> NoOutcome]
    /\ call = NoCall

SpecRestart == InitRestart /\ [][NextGC]_vars

\* the period check and the GC loop side by side, over records with and
\* without a netNs
CheckConfigs == {c \in GCConfigs : ~c.eipResMgr}

CheckRecords(c) ==
    {[r EXCEPT !.netNs = n] :
        r \in {x \in StoredRecords(c) : /\ WellBuilt(c, x) /\ x.stick = 0
                                         /\ Len(x.resources) = 1
                                         /\ x.resources[1].id \in {"r1", "eni1.10.0.0.1"}},
        n \in {"ns", "none"}}

CheckEnv == [GCEnv EXCEPT !.faults = {"list", "conf", "check", "mapping"}]

InitCheck ==
    /\ env = CheckEnv
    /\ cfg \in CheckConfigs
    /\ pendingPods = {}
    /\ readers = 0
    /\ writer = "none"
    /\ store \in [Pods -> {EmptyRes} \cup CheckRecords(cfg)]
    /\ th = [t \in Threads |-> IdleThread]
    /\ gc = IdleGC
    /\ hist = [p \in Pods |-> NoOutcome]
    /\ call = NoCheck

NextCheck ==
    \/ PeriodTick
    \/ MappingLocked
    \/ MappingReturn
    \/ CheckLocked
    \/ CheckListed
    \/ CheckCall
    \/ CheckReturn
    \/ GCTick
    \/ GCLocked
    \/ \E m \in ResourceTypes : GCCall(m)
    \/ GCCallReturn
    \/ GCCleanup
    \/ GCUnlock

SpecCheck == InitCheck /\ [][NextCheck]_vars

\* the handlers, the GC loop and the period check together.  Every call of a
\* manager, of the store and of Kubernetes returns, so a goroutine whose next
\* step can be taken again and again takes it: a reader that waits in
\* n.RLock() is admitted when the writer unlocks, before the next tick.
InitLive ==
    /\ env = LiveEnv
    /\ cfg = [daemonMode |-> daemonModeENIMultiIP, eipResMgr |-> FALSE,
              ipamCRD |-> FALSE, enableTrunk |-> FALSE]
    /\ pendingPods = {}
    /\ readers = 0
    /\ writer = "none"
    /\ store = [p \in Pods |-> EmptyRes]
    /\ th = [t \in Threads |-> IdleThread]
    /\ gc = IdleGC
    /\ hist = [p \in Pods |-> NoOutcome]
    /\ call = NoCheck

NextLive ==
    \/ Next
    \/ PeriodTick
    \/ MappingLocked
    \/ MappingReturn
    \/ CheckLocked
    \/ CheckListed
    \/ CheckCall
    \/ CheckReturn

\* the steps of a handler after its entry
HandlerStep(t) ==
    \/ Return(t)
    \/ AllocLocked(t) \/ AllocPlan(t) \/ AllocateReturn(t)
    \/ RollbackStep(t) \/ RollbackReleaseReturn(t)
    \/ ReleaseLocked(t) \/ ReleaseReturn(t)
    \/ InfoRead(t) \/ StatReturn(t)
    \/ HandlerExit(t)

\* the steps of a GC tick after the ticker fired
GCStep ==
    \/ GCLocked
    \/ \E m \in ResourceTypes : GCCall(m)
    \/ GCCallReturn
    \/ GCCleanup
    \/ GCUnlock

\* the steps of a period check after its start
CheckStep ==
    \/ MappingLocked \/ MappingReturn
    \/ CheckLocked \/ CheckListed
    \/ CheckCall \/ CheckReturn

SpecLive ==
    /\ InitLive /\ [][NextLive]_vars
    /\ \A t \in Threads : SF_vars(HandlerStep(t))
    /\ SF_vars(GCStep)
    /\ SF_vars(CheckStep)

\* ------------------------------------------------------------------------
\* Properties
\* ------------------------------------------------------------------------
\* the legal (daemonMode, PodNetworkType) combinations
LegalPairs ==
    {<<daemonModeVPC, podNetworkTypeVPCENI>>, <<daemonModeVPC, podNetworkTypeVPCIP>>,
     <<daemonModeENIMultiIP, podNetworkTypeENIMultiIP>>, <<daemonModeENIOnly, podNetworkTypeVPCENI>>}

Compatible(t) == <<cfg.daemonMode, th[t].pinfo.type>> \in LegalPairs

\* the handler has got the pod (and, in AllocIP and ReleaseIP, the pod's
\* record) and has applied verifyPodNetworkType to the pod's type
LookedUp(t) == th[t].typeOK # "unset"

\* every element of the first list occurs in the second
AllIn(items, list) == \A i \in 1..Len(items) : \E j \in 1..Len(list) : list[j] = items[i]

\* both lists hold the same items, each once
ExactlyOnce(items, list) ==
    /\ Len(list) = Len(items)
    /\ \A i \in 1..Len(items) : Cardinality({j \in 1..Len(list) : list[j] = items[i]}) = 1

\* an AllocIP has returned an error: its deferred calls up to the rollback have run
AllocFailed(t) == th[t].op = "alloc" /\ th[t].pc \in {"unlock", "done"} /\ th[t].ret # "nil"

\* a ReleaseIP has reached its return, its pod lookup and its store read (which
\* precede the mode, containerID and IPStickTime tests) having succeeded
ReleaseReturned(t) == th[t].op = "release" /\ th[t].pc = "unlock" /\ LookedUp(t)

\* C1 as stated: after every AllocIP(p) that returns an error the store holds no
\* record for p and every item a manager's Allocate returned during the call
\* has been passed to Release.
C1_RollbackAlways ==
    \A t \in Threads : AllocFailed(t) =>
        /\ store[th[t].pod] = EmptyRes
        /\ AllIn(th[t].allocated, th[t].released)

\* C1 amended: after an AllocIP(p) that returns an error, every item a
\* manager's Allocate returned during the call has been passed to Release; when
\* at least one item was returned the rollback deletes the record of p (no
\* record is left once a delete succeeded); when none was returned (failure at
\* the store read, the mode test, the PodENI read or the first Allocate) the
\* rollback does nothing and the store is as the call found it, a record of an
\* earlier allocation included.
C1_RollbackOfAllocated ==
    \A t \in Threads : AllocFailed(t) =>
        /\ AllIn(th[t].allocated, th[t].released)
        /\ (Len(th[t].allocated) > 0 /\ th[t].deleted) => store[th[t].pod] = EmptyRes
        /\ (Len(th[t].allocated) = 0 /\ LookedUp(t)) => store[th[t].pod] = th[t].old

\* a failed AllocIP that had allocated two items over an earlier record: both
\* released, the record gone
C1_Witness ==
    \E t \in Threads :
        /\ AllocFailed(t) /\ th[t].old.has
        /\ Len(th[t].allocated) = 2 /\ Len(th[t].released) = 2
        /\ store[th[t].pod] = EmptyRes

\* a ReleaseIP(p) about to return success, for a pod with IPStickTime = 0 in a
\* compatible mode, the last call for p having been a successful AllocIP(p)
\* with the same containerID
PairCase(t) ==
    /\ ReleaseReturned(t) /\ th[t].ret = "nil"
    /\ Compatible(t) /\ th[t].pinfo.stick = 0
    /\ hist[th[t].pod].alloc /\ hist[th[t].pod].stick = 0
    /\ hist[th[t].pod].cid = th[t].cid

\* C2 as stated: a successful AllocIP(p) followed by a successful ReleaseIP(p)
\* (IPStickTime = 0, compatible mode, same containerID) leaves no record for p
\* and Release has been called exactly once for each item AllocIP persisted.
C2_AllocThenRelease ==
    \A t \in Threads : PairCase(t) =>
        /\ store[th[t].pod] = EmptyRes
        /\ ExactlyOnce(hist[th[t].pod].resources, th[t].released)

\* C2 amended: the same, for an AllocIP that persisted a record (it allocated
\* from a pool; an AllocIP served from the PodENI alone persists nothing and
\* leaves an older record in place) and a ReleaseIP that still finds the record
\* (no GC tick has reclaimed it in between).
C2_AllocPersistedThenRelease ==
    \A t \in Threads : (PairCase(t) /\ hist[th[t].pod].put /\ th[t].old.has) =>
        /\ store[th[t].pod] = EmptyRes
        /\ ExactlyOnce(hist[th[t].pod].resources, th[t].released)

\* an ENI-IP and an EIP persisted by AllocIP, both released by ReleaseIP
C2_Witness ==
    \E t \in Threads :
        /\ PairCase(t) /\ hist[th[t].pod].put /\ th[t].old.has
        /\ Len(hist[th[t].pod].resources) = 2 /\ Len(th[t].released) = 2

\* goroutine t of h serves an AllocIP or ReleaseIP that has passed the
\* pending-pod gate and not yet removed its key
PastGate(h, t) ==
    /\ h[t].op \in {"alloc", "release"}
    /\ h[t].pc \in {"rlock", "plan", "inAllocate", "rollback", "inRelease", "unlock"}

\* C3: at most one AllocIP or ReleaseIP handler per pod is past the pending-pod
\* gate; a call that arrives for p while another one for p is past the gate
\* returns "resource processing" at once, and a call that finds none proceeds.
C3_PerPodSerialization ==
    [][/\ \A t1, t2 \in Threads :
            (PastGate(th', t1) /\ PastGate(th', t2) /\ th'[t1].pod = th'[t2].pod) => t1 = t2
       /\ \A t \in Threads :
            (th[t].pc = "idle" /\ th'[t].op \in {"alloc", "release"}) =>
                IF \E u \in Threads \ {t} : PastGate(th, u) /\ th[u].pod = th'[t].pod
                THEN th'[t].pc = "done" /\ th'[t].ret = "resource processing"
                ELSE th'[t].pc = "rlock"]_vars

\* two overlapping AllocIP for one pod: one is allocating, the other got the error
C3_Witness ==
    \E t1, t2 \in Threads :
        /\ th[t1].op = "alloc" /\ th[t1].pc = "inAllocate"
        /\ th[t2].op = "alloc" /\ th[t2].pc = "done" /\ th[t2].ret = "resource processing"
        /\ th[t1].pod = th[t2].pod

\* a handler is inside a call of the manager the GC tick is collecting
Overlap(t) ==
    /\ gc.pc = "inGC"
    /\ th[t].pc \in {"inAllocate", "inRelease", "inStat"}
    /\ th[t].mgr = gc.cur

\* C4 as stated: no manager's GarbageCollection overlaps an Allocate or Release
\* issued by AllocIP/ReleaseIP (rollback included) or a Stat issued by GetIPInfo
\* on the same manager.
C4_NoOverlap == \A t \in Threads : ~Overlap(t)

\* C4 amended: no manager's GarbageCollection overlaps an Allocate or Release
\* issued by AllocIP/ReleaseIP (rollback included) on the same manager; the
\* Stat of GetIPInfo is called after the read lock is given back and may overlap.
C4_NoOverlapWithAllocRelease ==
    \A t \in Threads : th[t].op \in {"alloc", "release"} => ~Overlap(t)

\* the ENI-IP manager is collecting while an AllocIP that will call it waits
\* for the read lock
C4_Witness ==
    \E t \in Threads :
        /\ gc.pc = "inGC" /\ gc.cur = ResourceTypeENIIP
        /\ th[t].op = "alloc" /\ th[t].pc = "rlock"

\* goroutine t of h is between the RLock and the RUnlock of AllocIP/ReleaseIP
InSection(h, t) ==
    /\ h[t].op \in {"alloc", "release"}
    /\ h[t].pc \in {"plan", "inAllocate", "rollback", "inRelease", "unlock"}

\* the GC goroutine g holds the write lock
InTick(g) == g.pc \in {"collect", "inGC", "panic", "unlock"}

\* C5: a GC tick gets past its Lock (and starts reading the pods and the store)
\* only when no AllocIP/ReleaseIP handler is in its locked section, and none
\* is in that section while the tick holds the lock; handlers for distinct
\* pods can be in the section together.
C5_TickExcludesHandlers ==
    [][/\ (gc.pc = "lock" /\ gc'.pc # "lock") => \A t \in Threads : ~InSection(th, t)
       /\ InTick(gc') => \A t \in Threads : ~InSection(th', t)]_vars

\* two handlers for distinct pods in the section while a tick waits for the lock
C5_Witness ==
    \E t1, t2 \in Threads :
        /\ InSection(th, t1) /\ InSection(th, t2)
        /\ th[t1].pod # th[t2].pod
        /\ gc.pc = "lock"

\* the ids of the items of a record are all in, or all out of, the set of their type
ItemsIn(res, sets) ==
    \A i \in 1..Len(res.resources) : res.resources[i].id \in sets[res.resources[i].type]
ItemsNotIn(res, sets) ==
    \A i \in 1..Len(res.resources) : res.resources[i].id \notin sets[res.resources[i].type]

\* C6: a tick that finds a record whose pod is gone and whose IPStickTime > 0
\* rewrites it with IPStickTime = 0, keeps it and reports its items as inUse,
\* not expired; a tick that finds the pod gone and IPStickTime = 0 reports the
\* items as expired and, all GarbageCollection calls having succeeded, deletes
\* the record; no other record is deleted.  (The rewrite is a store Put and the
\* deletion a store Delete: one that returns an error leaves the record as it
\* was, for the next tick.)
C6_TwoPhaseSticky ==
    [][\A p \in Pods :
         /\ (gc.pc = "lock" /\ gc'.pc = "collect" /\ store[p].has /\ p \notin gc'.podKeyMap) =>
              IF store[p].stick > 0
              THEN /\ store'[p] = IF p \in gc'.putFailed THEN store[p]
                                  ELSE [store[p] EXCEPT !.stick = 0]
                   /\ ItemsIn(store[p], gc'.inUseSet) /\ ItemsNotIn(store[p], gc'.expireSet)
                   /\ p \notin Expired(gc')
              ELSE /\ store'[p] = store[p]
                   /\ ItemsIn(store[p], gc'.expireSet) /\ ItemsNotIn(store[p], gc'.inUseSet)
                   /\ p \in Expired(gc')
         /\ (gc.pc = "collect" /\ gc'.pc = "unlock") =>
              store'[p] = IF p \in Expired(gc) /\ gc.gcDone /\ p \notin gc'.delFailed
                          THEN EmptyRes ELSE store[p]]_vars

\* the first phase has just run: the pod is gone, its record is kept with
\* IPStickTime = 0 and its items are reported as inUse
C6_Witness ==
    \E p \in Pods :
        /\ gc.pc = "collect" /\ p \notin gc.podKeyMap
        /\ store[p].has /\ store[p].stick = 0 /\ Len(store[p].resources) > 0
        /\ p \notin Expired(gc)
        /\ ItemsIn(store[p], gc.inUseSet)

\* a ReleaseIP for a sticky pod, mode compatible, containerID matching
StickyCase(t) ==
    /\ ReleaseReturned(t) /\ Compatible(t)
    /\ th[t].pinfo.stick > 0
    /\ th[t].old.cid \in {"none", th[t].cid}

\* C7 as stated: ReleaseIP for a pod with IPStickTime > 0 (mode compatible,
\* containerID matching) returns success, calls no Release and leaves the
\* record unchanged.
C7_StickyRelease ==
    \A t \in Threads : StickyCase(t) =>
        /\ th[t].ret = "nil"
        /\ th[t].released = <<>>
        /\ store[th[t].pod] = th[t].old

\* C7 amended: ReleaseIP for a pod with IPStickTime > 0 (mode compatible,
\* containerID matching) calls no Release and leaves the record unchanged; it
\* returns success unless the request context is cancelled, in which case it
\* returns the "error on grpc connection" error.
C7_StickyReleaseUnlessCancelled ==
    \A t \in Threads : StickyCase(t) =>
        /\ th[t].ret = IF th[t].err = "ctx" THEN "error on grpc connection" ELSE "nil"
        /\ th[t].released = <<>>
        /\ store[th[t].pod] = th[t].old

\* a sticky pod with a stored item is released: success, record kept
C7_Witness ==
    \E t \in Threads :
        /\ StickyCase(t) /\ th[t].ret = "nil"
        /\ th[t].old.has /\ Len(th[t].old.resources) > 0
        /\ store[th[t].pod] = th[t].old

\* C8: when the stored record has a containerID and the ReleaseIP request
\* carries another one, the reply is success, no Release is called and the
\* record is unchanged, whatever the mode, the IPStickTime and the request
\* context are.
C8_StaleSandboxRelease ==
    \A t \in Threads :
        (ReleaseReturned(t) /\ th[t].old.cid # "none" /\ th[t].old.cid # th[t].cid) =>
            /\ th[t].ret = "nil"
            /\ th[t].released = <<>>
            /\ store[th[t].pod] = th[t].old

\* a request from another sandbox for a pod that is not sticky, in a compatible
\* mode, whose record holds an item
C8_Witness ==
    \E t \in Threads :
        /\ ReleaseReturned(t) /\ th[t].old.cid # "none" /\ th[t].old.cid # th[t].cid
        /\ Compatible(t) /\ th[t].pinfo.stick = 0
        /\ Len(th[t].old.resources) > 0
        /\ th[t].ret = "nil"

\* C9: for a (daemonMode, PodNetworkType) pair that is not legal, a ReleaseIP
\* that gets as far as the mode test returns success, calls no manager and
\* leaves the store as it is, also when a record for the pod exists and
\* whatever the containerID, the IPStickTime and the request context are.
C9_CrossModeRelease ==
    \A t \in Threads :
        (ReleaseReturned(t) /\ ~Compatible(t)) =>
            /\ th[t].ret = "nil"
            /\ th[t].released = <<>>
            /\ store[th[t].pod] = th[t].old

\* an ENIMultiIP pod released under daemon mode VPC, its record holding an
\* item stored for the same sandbox, the pod not sticky
C9_Witness ==
    \E t \in Threads :
        /\ ReleaseReturned(t) /\ cfg.daemonMode = daemonModeVPC
        /\ th[t].pinfo.type = podNetworkTypeENIMultiIP /\ th[t].pinfo.stick = 0
        /\ th[t].old.has /\ th[t].old.cid = th[t].cid /\ Len(th[t].old.resources) > 0
        /\ th[t].ret = "nil"

\* C10: verifyPodNetworkType accepts exactly the four legal pairs: whenever a
\* handler has applied it to the pod's type, the result is TRUE for a legal
\* pair and FALSE for every other.
C10_ModePolicy ==
    \A t \in Threads :
        LookedUp(t) => (th[t].typeOK = IF Compatible(t) THEN "accepted" ELSE "rejected")

\* a VPCENI pod is accepted under daemon mode ENIOnly
C10_Witness ==
    \E t \in Threads :
        /\ th[t].typeOK = "accepted"
        /\ cfg.daemonMode = daemonModeENIOnly
        /\ th[t].pinfo.type = podNetworkTypeVPCENI

\* ------------------------------------------------------------------------
\* GetIPInfo replies
\* ------------------------------------------------------------------------
\* the step in which the GetIPInfo call of t returns
InfoEnds(t) == th[t].pc # "done" /\ th'[t].pc = "done" /\ th'[t].op = "info"

\* the call that returns was for a pod whose type the daemon mode does not serve
InfoModeMismatch(t) == th'[t].typeOK = "rejected"

\* the call that returns read a record stored for another containerID
InfoSandboxMismatch(t) ==
    th'[t].typeOK = "accepted" /\ th'[t].old.has /\ th'[t].old.cid # th'[t].cid

\* C11 as stated: a GetIPInfo that meets a daemon-mode/pod-type mismatch or a
\* containerID mismatch returns a success reply, writes nothing to the store
\* and returns without a manager call.
C11_InfoMismatchSucceeds ==
    [][\A t \in Threads :
         (InfoEnds(t) /\ (InfoModeMismatch(t) \/ InfoSandboxMismatch(t)))
            => /\ th'[t].ret = "nil"
               /\ store' = store
               /\ th[t].pc # "inStat"]_vars

\* C11 amended: a GetIPInfo that reads a record stored for another containerID
\* returns a success reply without NetConfs straight after the read; one that
\* meets a daemon-mode/pod-type mismatch returns the error "unexpect pod
\* network type get info" before it reads the store.  Neither writes to the
\* store nor calls a manager.
C11_InfoMismatch ==
    [][\A t \in Threads :
         InfoEnds(t) =>
            /\ InfoModeMismatch(t)
                 => /\ th'[t].ret = "unexpect pod network type get info"
                    /\ th[t].pc = "idle"
                    /\ th'[t].old = EmptyRes
                    /\ store' = store
            /\ InfoSandboxMismatch(t)
                 => /\ th'[t].ret = "nil"
                    /\ th'[t].rerr = "none"
                    /\ th'[t].netConf = <<>>
                    /\ th[t].pc = "infoRLock"
                    /\ store' = store]_vars

\* a GetIPInfo has returned for a pod whose stored items belong to another sandbox
C11_Witness ==
    \E t \in Threads :
        /\ th[t].op = "info" /\ th[t].pc = "done" /\ th[t].typeOK = "accepted"
        /\ th[t].old.has /\ th[t].old.cid # th[t].cid
        /\ Len(th[t].old.resources) > 0
        /\ th[t].ret = "nil"

\* ------------------------------------------------------------------------
\* AllocIP: what a call leaves behind
\* ------------------------------------------------------------------------
\* the AllocIP of t has returned success and still holds the lock
AllocSucceeded(t) == th[t].op = "alloc" /\ th[t].pc = "unlock" /\ th[t].ret = "nil"

\* C12 as stated: after every successful AllocIP(p) the store holds a record
\* for p whose netNs and containerID are those of the request.
C12_CommitOnSuccess ==
    \A t \in Threads :
        AllocSucceeded(t)
           => /\ store[th[t].pod].has
              /\ store[th[t].pod].netNs = th[t].netNs
              /\ store[th[t].pod].cid = th[t].cid

\* C12 amended: after a successful AllocIP(p) that took an item from a
\* manager the store holds a record for p with the netNs and containerID of
\* the request and the items of the call; a successful AllocIP(p) whose
\* NetConfs all came from the PodENI writes nothing and leaves the store
\* as it read it.
C12_CommitOfAllocated ==
    \A t \in Threads :
        AllocSucceeded(t)
           => IF Len(th[t].allocated) > 0
              THEN /\ store[th[t].pod].has
                   /\ store[th[t].pod].netNs = th[t].netNs
                   /\ store[th[t].pod].cid = th[t].cid
                   /\ store[th[t].pod].resources = th[t].allocated
              ELSE /\ th[t].crd = "ok"
                   /\ store[th[t].pod] = th[t].old

\* a successful AllocIP has replaced the record another sandbox had left
C12_Witness ==
    \E t \in Threads :
        /\ AllocSucceeded(t)
        /\ Len(th[t].allocated) > 0
        /\ th[t].old.has /\ th[t].old.cid # th[t].cid
        /\ store[th[t].pod].cid = th[t].cid

\* the AllocIP of t has returned the cancellation error and still holds the
\* lock; it had persisted the record of its items before it met the cancellation
CancelledAfterCommit(t) ==
    /\ th[t].op = "alloc" /\ th[t].pc = "unlock"
    /\ th[t].ret = "error on grpc connection"
    /\ Len(th[t].allocated) > 0

\* C13 as stated: an AllocIP that finds the context cancelled after its
\* record was persisted returns an error, releases nothing and leaves the
\* persisted record in the store.
C13_CancelKeepsCommit ==
    \A t \in Threads :
        CancelledAfterCommit(t)
           => /\ th[t].released = <<>>
              /\ ~th[t].deleted
              /\ store[th[t].pod].has
              /\ store[th[t].pod].resources = th[t].allocated

\* C13 amended: an AllocIP that finds the context cancelled after its record
\* was persisted returns an error and rolls back: every item of the call has
\* been passed to Release, and the persisted record is gone from the store
\* unless every delete of the rollback failed.
C13_CancelRollsBack ==
    \A t \in Threads :
        CancelledAfterCommit(t)
           => /\ th[t].released = th[t].allocated
              /\ th[t].deleted => store[th[t].pod] = EmptyRes
              /\ ~th[t].deleted => store[th[t].pod].resources = th[t].allocated

\* a cancelled AllocIP has released its two items and deleted its record
C13_Witness ==
    \E t \in Threads :
        /\ CancelledAfterCommit(t)
        /\ Len(th[t].released) = 2
        /\ th[t].deleted
        /\ store[th[t].pod] = EmptyRes

\* the deferred rollback of the AllocIP of t is running
InRollback(t) == th[t].op = "alloc" /\ th[t].pc \in {"rollback", "inRelease"}

\* C14: while the rollback of a failed AllocIP runs, the error the call has
\* returned stays what it was when the return statement was reached, whatever
\* deletePodResource and Release answer; the rollback ends only after the
\* last item, every item having been passed to Release.
C14_RollbackBestEffort ==
    [][\A t \in Threads :
         InRollback(t) =>
            /\ th'[t].ret = th[t].ret
            /\ th'[t].ret # "nil"
            /\ th'[t].pc \in {"rollback", "inRelease", "unlock"}
            /\ th'[t].pc = "unlock" => th'[t].released = th[t].resources]_vars

\* a rollback has ended after two items although no delete succeeded and the
\* last Release failed; the call returns the failure of the Put
C14_Witness ==
    \E t \in Threads :
        /\ th[t].op = "alloc" /\ th[t].pc = "unlock"
        /\ th[t].ret = "error put resource into store"
        /\ ~th[t].deleted
        /\ th[t].err = "error"
        /\ Len(th[t].released) = 2

\* ------------------------------------------------------------------------
\* ReleaseIP: errors of Release
\* ------------------------------------------------------------------------
\* the ReleaseIP of t has returned for a pod with IPStickTime = 0 it released
\* items of; a Release of the call returned ErrInvalidState and none returned
\* another error
InvalidStateCase(t) ==
    /\ ReleaseReturned(t)
    /\ th[t].pinfo.stick = 0
    /\ th[t].invalid
    /\ th[t].err # "error"

\* the stored items ReleaseIP calls Release for: those whose manager is configured
Managed(items) == SelectSeq(items, LAMBDA r : MgrEntry(r.type) = "mgr")

\* C15 as stated: a ReleaseIP with IPStickTime = 0 in which a Release returns
\* ErrInvalidState returns a success reply, has gone on through the
\* remaining items and has deleted the record; a ReleaseIP in which a Release
\* returns any other error returns an error.
C15_InvalidStateTolerated ==
    \A t \in Threads :
        /\ InvalidStateCase(t)
             => /\ th[t].ret = "nil"
                /\ th[t].released = Managed(th[t].old.resources)
                /\ store[th[t].pod] = EmptyRes
        /\ (ReleaseReturned(t) /\ th[t].err = "error")
             => th[t].ret = "error release request network resource"

\* C15 amended: such a ReleaseIP goes on to the store delete as after a
\* Release without error; it returns success, with the remaining items
\* released and the record deleted, unless a store delete fails (the call
\* returns that error at once) or the context is found cancelled after the
\* loop (the call returns that error, the items released and the record
\* deleted).  A Release that returns any other error ends the call with an
\* error.
C15_InvalidStateAsSuccess ==
    \A t \in Threads :
        /\ InvalidStateCase(t)
             => CASE th[t].err = "delete" ->
                       /\ th[t].ret = "error delete resource from db"
                  [] th[t].err = "ctx" ->
                       /\ th[t].ret = "error on grpc connection"
                       /\ th[t].released = Managed(th[t].old.resources)
                       /\ store[th[t].pod] = EmptyRes
                  [] OTHER ->
                       /\ th[t].ret = "nil"
                       /\ th[t].released = Managed(th[t].old.resources)
                       /\ store[th[t].pod] = EmptyRes
        /\ (ReleaseReturned(t) /\ th[t].err = "error")
             => th[t].ret = "error release request network resource"

\* a ReleaseIP has returned success after two Releases, one of which returned
\* ErrInvalidState, and the record is gone
C15_Witness ==
    \E t \in Threads :
        /\ InvalidStateCase(t)
        /\ th[t].ret = "nil"
        /\ Len(th[t].released) = 2
        /\ store[th[t].pod] = EmptyRes

\* ------------------------------------------------------------------------
\* GetIPInfo: PodENI not ready
\* ------------------------------------------------------------------------
\* the pod of t is served from the PodENI: an ENIMultiIP pod that opted in on
\* a daemon with trunking, or a VPCENI pod on a daemon with ipamType CRD
CRDMode(t) ==
    \/ th[t].pinfo.type = podNetworkTypeENIMultiIP /\ th[t].pinfo.podENI /\ cfg.enableTrunk
    \/ th[t].pinfo.type = podNetworkTypeVPCENI /\ cfg.ipamCRD

\* the GetIPInfo of t has returned for such a pod after a PodENI read that
\* failed or gave a PodENI without allocations
CRDNotReady(t) ==
    /\ th[t].op = "info" /\ th[t].pc = "done"
    /\ CRDMode(t)
    /\ th[t].crd \in {"notfound", "error", "empty"}

\* C16 as stated: a GetIPInfo for a pod in CRD mode whose PodENI read fails or
\* whose PodENI has no allocations returns, without an error, a reply with
\* Error = ErrCRDNotFound and no NetConfs.
C16_CRDNotReady ==
    \A t \in Threads :
        CRDNotReady(t)
           => /\ th[t].ret = "nil"
              /\ th[t].rerr = "ErrCRDNotFound"
              /\ th[t].netConf = <<>>

\* ------------------------------------------------------------------------
\* GetIPInfo: a read path
\* ------------------------------------------------------------------------
\* a step of the GetIPInfo of t
InfoStep(t) == th'[t] # th[t] /\ (th[t].op = "info" \/ th'[t].op = "info")

\* C17: no step of a GetIPInfo changes the store or the pending-pod set; the
\* call neither takes an item from a manager nor passes one to Release, and
\* the only manager call it waits in is Stat.
C17_InfoReadOnly ==
    [][\A t \in Threads :
         InfoStep(t) =>
            /\ store' = store
            /\ pendingPods' = pendingPods
            /\ th'[t].allocated = <<>>
            /\ th'[t].released = <<>>
            /\ ~th'[t].deleted
            /\ th'[t].mgr # "none" => th'[t].pc = "inStat"
            /\ th'[t].pc \in {"idle", "infoRLock", "inStat", "done"}]_vars

\* a GetIPInfo has returned a NetConf after a Stat, the record of the pod
\* still in the store
C17_Witness ==
    \E t \in Threads :
        /\ th[t].op = "info" /\ th[t].pc = "done" /\ th[t].ret = "nil"
        /\ Len(th[t].netConf) > 0
        /\ Len(th[t].old.resources) > 0
        /\ store[th[t].pod] = th[t].old
        /\ th[t].pod \notin pendingPods

\* ------------------------------------------------------------------------
\* defaultForNetConf
\* ------------------------------------------------------------------------
\* the positions of a NetConf list that have DefaultRoute set
Routes(s) == {i \in 1..Len(s) : s[i].defaultRoute}

\* the positions of a NetConf list that are on the default interface
OnDefaultIf(s) == {i \in 1..Len(s) : s[i].ifName \in {"", "eth0"}}

\* a call of defaultForNetConf has returned
Returned == call.pc = "returned"

\* C18: on a non-empty list defaultForNetConf returns an error exactly when
\* two or more entries have DefaultRoute set or no entry is on the default
\* interface; on an empty list it returns no error and leaves the list empty.
C18_DefaultForNetConfError ==
    Returned =>
        IF Len(call.arg) = 0
        THEN call.err = "nil" /\ call.netConf = <<>>
        ELSE (call.err # "nil") <=>
                (Cardinality(Routes(call.arg)) >= 2 \/ OnDefaultIf(call.arg) = {})

\* a call has failed on a list with one default route and no default interface
C18_Witness ==
    /\ Returned
    /\ Len(call.arg) = MaxNetConfs
    /\ Cardinality(Routes(call.arg)) = 1
    /\ OnDefaultIf(call.arg) = {}
    /\ call.err = "default interface is not set"

\* C19: when defaultForNetConf succeeds on a non-empty list, exactly one
\* entry has DefaultRoute set afterwards; a list that had such an entry is
\* returned as it was, otherwise the first entry on the default interface is
\* marked and nothing else is changed.
C19_DefaultForNetConfMarks ==
    (Returned /\ call.err = "nil" /\ Len(call.arg) > 0) =>
        /\ Cardinality(Routes(call.netConf)) = 1
        /\ Len(call.netConf) = Len(call.arg)
        /\ IF Routes(call.arg) # {}
           THEN call.netConf = call.arg
           ELSE \E k \in OnDefaultIf(call.arg) :
                   /\ \A j \in OnDefaultIf(call.arg) : k <= j
                   /\ call.netConf = [call.arg EXCEPT ![k].defaultRoute = TRUE]

\* a call has marked the second entry of a list whose first entry is on
\* another interface and whose last entry is on the default interface too
C19_Witness ==
    /\ Returned /\ call.err = "nil"
    /\ Len(call.arg) = MaxNetConfs
    /\ Routes(call.arg) = {}
    /\ OnDefaultIf(call.arg) = {2, MaxNetConfs}
    /\ Routes(call.netConf) = {2}

\* ------------------------------------------------------------------------
\* AllocIP: the NetConfs of a reply
\* ------------------------------------------------------------------------
\* C20: the NetConfs of every successful AllocIP reply are not empty, have at
\* most one entry with DefaultRoute set and at least one entry on the
\* default interface.
C20_ReplyNetConfs ==
    \A t \in Threads :
        (th[t].op = "alloc" /\ th[t].pc \in {"unlock", "done"} /\ th[t].ret = "nil")
           => /\ Len(th[t].netConf) > 0
              /\ Cardinality(Routes(th[t].netConf)) <= 1
              /\ OnDefaultIf(th[t].netConf) # {}

\* a successful AllocIP replies with the NetConf of the PodENI, on another
\* interface, and the NetConf of the pool item it allocated, which carries
\* the default route
C20_Witness ==
    \E t \in Threads :
        /\ th[t].op = "alloc" /\ th[t].pc = "done" /\ th[t].ret = "nil"
        /\ th[t].crd = "ok"
        /\ Len(th[t].allocated) > 0
        /\ Len(th[t].netConf) = 2
        /\ th[t].netConf[1].ifName = "eth1"
        /\ Routes(th[t].netConf) = {2}

\* ------------------------------------------------------------------------
\* Garbage collection: the maps of a tick
\* ------------------------------------------------------------------------
\* the tick has built its maps and has not yet deleted a record
Collected == gc.pc \in {"collect", "inGC"}

\* the record of p was counted as present by the tick: its pod is live, or the
\* record was sticky and its collection deferred
CountedPresent(p) == store[p].has /\ p \notin Expired(gc)

\* the record of p holds an item of type t with id i
Holds(p, t, i) == \E k \in 1..Len(store[p].resources) : store[p].resources[k] = [type |-> t, id |-> i]

\* C21: in every tick the inUse and expired maps of a type are disjoint, an id
\* held by a record counted as present is in inUse and not in expired,
\* whatever absent records hold it too and in whatever order the records
\* were listed, and an id held by absent records only is in expired.
C21_InUseWins ==
    Collected =>
        \A t \in ResourceTypes :
            /\ gc.inUseSet[t] \cap gc.expireSet[t] = {}
            /\ \A p \in Pods : \A k \in 1..Len(store[p].resources) :
                   store[p].resources[k].type = t =>
                      LET i == store[p].resources[k].id
                      IN IF \E q \in Pods : CountedPresent(q) /\ Holds(q, t, i)
                         THEN i \in gc.inUseSet[t] /\ i \notin gc.expireSet[t]
                         ELSE i \in gc.expireSet[t]

\* a tick has listed the record of an absent pod before the record of a live
\* pod that holds the same ENI-IP id
C21_Witness ==
    /\ Collected
    /\ Len(gc.listed) = 2
    /\ gc.listed[1] \in Expired(gc)
    /\ gc.listed[2] \in gc.podKeyMap
    /\ \E i \in gc.inUseSet[ResourceTypeENIIP] :
          Holds(gc.listed[1], ResourceTypeENIIP, i) /\ Holds(gc.listed[2], ResourceTypeENIIP, i)

\* ------------------------------------------------------------------------
\* Garbage collection: after the managers
\* ------------------------------------------------------------------------
\* the step that ends the loop over the managers of a tick: the cleanup and
\* the deletion of the expired records, or neither
AfterManagers == gc.pc = "collect" /\ gc'.pc = "unlock"

\* the types held by the listed records that the daemon has a manager for
ManagedTypes(g) == {t \in g.seen : MgrEntry(t) = "mgr"}

\* C22: in a tick every manager of a type held by the listed records has its
\* GarbageCollection invoked, whether or not another manager failed; when a
\* manager failed the tick deletes no record and cleans no rule or route;
\* when none failed, every key of relateExpireList is deleted from the store
\* (a key whose Delete returns an error is logged and stays).
C22_PartialFailure ==
    [][AfterManagers =>
          /\ gc'.called = ManagedTypes(gc)
          /\ gc.failed # {} => (store' = store /\ gc'.cleaned = {})
          /\ gc.failed = {} =>
                \A p \in Pods :
                    /\ (p \in Expired(gc) /\ p \notin gc'.delFailed) => store'[p] = EmptyRes
                    /\ p \notin Expired(gc) => store'[p] = store[p]]_vars

\* a tick in which one of two managers failed has called both and ends with
\* the record of the absent pod still in the store
C22_Witness ==
    /\ gc.pc = "unlock"
    /\ Cardinality(gc.failed) = 1
    /\ Cardinality(gc.called) = 2
    /\ \E p \in Expired(gc) : store[p].has

\* the tick listed the pods and the records and is about to unlock
TickDone == gc.pc = "unlock" /\ gc.err = "nil"

\* the types the daemon has a manager for
Managers == {t \in ResourceTypes : MgrEntry(t) = "mgr"}

\* C23 as stated: a tick that lists the pods and the records invokes
\* GarbageCollection on the manager of every type the daemon manages, also
\* when no record holds an item of the type.
C23_EveryManagerCollects == TickDone => gc.called = Managers

\* C23 amended: such a tick invokes GarbageCollection on a manager exactly
\* when a listed record holds an item of its type, so that the maps it hands
\* over are never both empty; with an empty store no manager is called.
C23_ManagersOfHeldTypes ==
    TickDone =>
        /\ \A t \in ResourceTypes :
              t \in gc.called <=>
                 (MgrEntry(t) = "mgr" /\ gc.inUseSet[t] \cup gc.expireSet[t] # {})
        /\ gc.listed = <<>> => gc.called = {}

\* a tick has listed an empty store and called no manager
C23_Witness ==
    /\ TickDone
    /\ gc.listed = <<>>
    /\ gc.called = {}
    /\ Managers # {}

\* ------------------------------------------------------------------------
\* Garbage collection: live pods
\* ------------------------------------------------------------------------
\* the step in which a tick lists the records and builds its maps
Listing == gc.pc = "lock" /\ gc'.pc = "collect"

\* C24: a tick puts a record on its expiry list only if the pod of the record
\* is not among the live pods and the stored IPStickTime is 0, and deletes
\* only records of that list; the record of a live pod is neither deleted
\* nor rewritten by the tick and none of its ids is in an expired map.
C24_LivePodsKept ==
    [][/\ Listing =>
            \A p \in Pods :
                /\ p \in Expired(gc')
                     => (p \notin gc'.podKeyMap /\ store[p].has /\ store[p].stick = 0)
                /\ p \in gc'.podKeyMap
                     => /\ store'[p] = store[p]
                        /\ \A k \in 1..Len(store[p].resources) :
                              store[p].resources[k].id
                                 \notin gc'.expireSet[store[p].resources[k].type]
       /\ gc' # gc =>
            \A p \in Pods :
                (store[p].has /\ ~store'[p].has)
                   => (p \in Expired(gc) /\ p \notin gc.podKeyMap /\ store[p].stick = 0)]_vars

\* a tick has deleted the record of an absent pod and kept the record of a
\* live pod that holds the same ENI-IP id
C24_Witness ==
    /\ TickDone
    /\ \E p \in gc.podKeyMap, q \in Expired(gc) :
          /\ store[p].has
          /\ store[q] = EmptyRes
          /\ \E i \in gc.inUseSet[ResourceTypeENIIP] : Holds(p, ResourceTypeENIIP, i)
          /\ gc.expireSet[ResourceTypeENIIP] = {}

\* ------------------------------------------------------------------------
\* Garbage collection: the rule and route cleanup
\* ------------------------------------------------------------------------
\* an ENI-IP id of the form "<eniID>.<ipv4>"
WellFormed(i) == i \in {"eni1.10.0.0.1", "eni1.10.0.0.2"}

\* C25 as stated: in a tick whose managers all succeeded, every well-formed
\* expired ENI-IP id has its rules and routes deleted, whatever malformed
\* ids are expired with it, and the keys of relateExpireList are deleted from
\* the store.
C25_MalformedSkipped ==
    (TickDone /\ gc.failed = {}) =>
        /\ \A i \in gc.expireSet[ResourceTypeENIIP] : WellFormed(i) => i \in gc.cleaned
        /\ \A p \in Expired(gc) : p \notin gc.delFailed => store[p] = EmptyRes

\* ------------------------------------------------------------------------
\* toResMapping
\* ------------------------------------------------------------------------
\* the ids of the items other than EIPs in the records handed to the call
BoundIDs ==
    UNION {{call.pods[i].resources[k].id :
               k \in {j \in 1..Len(call.pods[i].resources) :
                         call.pods[i].resources[j].type # ResourceTypeEIP}} :
           i \in 1..Len(call.pods)}

\* the resource id an entry of the result stands for
EntryID(e) ==
    IF e.localResID # "" THEN e.localResID
    ELSE IF e.remoteResID # "" THEN e.remoteResID
    ELSE e.podBindResID

\* a call of toResMapping has returned
Mapped == call.pc = "returned"

\* C26: toResMapping returns one PodMapping for every resource id known
\* locally, remotely or bound by a record (EIP items left out), its fields
\* the id where the id is known and empty elsewhere, and Valid holds exactly
\* when the resource is bound to a pod and the three ids agree, or bound to
\* no pod and the local and remote ids agree.
C26_ResMappingValid ==
    Mapped =>
        LET ids == call.local \cup call.remote \cup BoundIDs
        IN /\ Len(call.mapping) = Cardinality(ids)
           /\ {EntryID(call.mapping[k]) : k \in 1..Len(call.mapping)} = ids
           /\ \A k \in 1..Len(call.mapping) :
                 LET e == call.mapping[k]
                     i == EntryID(e)
                     bound == e.name # ""
                 IN /\ e.localResID = (IF i \in call.local THEN i ELSE "")
                    /\ e.remoteResID = (IF i \in call.remote THEN i ELSE "")
                    /\ e.podBindResID = (IF i \in BoundIDs THEN i ELSE "")
                    /\ bound <=> i \in BoundIDs
                    /\ e.valid <=>
                          \/ bound /\ e.localResID = e.remoteResID
                                   /\ e.remoteResID = e.podBindResID
                          \/ ~bound /\ e.localResID = e.remoteResID

\* a call has returned a valid entry of a bound resource, an invalid entry of
\* a resource bound by a pod and unknown to the pool, with an EIP item left out
C26_Witness ==
    /\ Mapped
    /\ Len(call.mapping) = 2
    /\ \E k \in 1..2 : call.mapping[k].valid /\ call.mapping[k].name # ""
    /\ \E k \in 1..2 : /\ ~call.mapping[k].valid
                         /\ call.mapping[k].name # ""
                         /\ call.mapping[k].localResID = ""
                         /\ call.mapping[k].remoteResID = ""
    /\ \E i \in 1..Len(call.pods) : \E k \in 1..Len(call.pods[i].resources) :
          call.pods[i].resources[k].type = ResourceTypeEIP

C28_IllegalPairRejected ==
    \A t \in Threads :
        (th[t].op = "alloc" /\ LookedUp(t) /\ ~Compatible(t)) =>
            /\ th[t].pc \in {"unlock", "done"}
            /\ th[t].ret # "nil"
            /\ th[t].allocated = <<>> /\ th[t].released = <<>>
            /\ th[t].pc = "unlock" => store[th[t].pod] = th[t].old

\* an AllocIP of a VPCIP pod under daemon mode ENIMultiIP has been rejected
\* over the record of an earlier allocation, which is still there
C28_Witness ==
    \E t \in Threads :
        /\ th[t].op = "alloc" /\ th[t].pc = "unlock" /\ th[t].typeOK = "rejected"
        /\ cfg.daemonMode = daemonModeENIMultiIP
        /\ th[t].pinfo.type = podNetworkTypeVPCIP
        /\ th[t].old.has /\ store[th[t].pod] = th[t].old

\* the positions in the record read of the items of the type being allocated
PriorItems == {i \in 1..Len(call.old.resources) : call.old.resources[i].type = call.mgr}

\* C29: Allocate is called with the id of the stored item of the type being
\* allocated when the record read holds exactly one such item, and with the
\* empty priorID when there is no record or the record holds none or more
\* than one.
C29_PriorResourceReused ==
    call.pc = "inAllocate" =>
        call.prior = IF Cardinality(PriorItems) = 1
                     THEN call.old.resources[CHOOSE i \in PriorItems : TRUE].id
                     ELSE ""

\* the EIP Allocate of a pod whose record holds an ENI-IP item and then an EIP
\* item is called with the id of the EIP item
C29_Witness ==
    /\ call.pc = "inAllocate" /\ call.mgr = ResourceTypeEIP
    /\ call.old.has /\ Len(call.old.resources) = 2
    /\ call.old.resources[1].type = ResourceTypeENIIP
    /\ call.old.resources[2] = [type |-> ResourceTypeEIP, id |-> "r2"]
    /\ call.prior = "r2"

\* C30: the EIP manager's Allocate is called only after the ENI-IP or ENI
\* Allocate of the same call has returned an item, only with an EIP manager
\* configured and a pod that requests an EIP, and with podinfo.PodIPs set to
\* the addresses of that item; an AllocIP that returns nil after an EIP
\* Allocate has persisted a record of exactly two items, the ENI-IP or ENI
\* item followed by the EIP item.
C30_EIPAfterMain ==
    \A t \in Threads : th[t].op = "alloc" =>
        /\ (th[t].pc = "inAllocate" /\ th[t].mgr = ResourceTypeEIP) =>
              /\ Len(th[t].allocated) = 1
              /\ th[t].allocated[1].type \in {ResourceTypeENIIP, ResourceTypeENI}
              /\ cfg.eipResMgr /\ th[t].pinfo.eip
              /\ th[t].podIPs = th[t].allocated[1]
        /\ (/\ th[t].pc = "unlock" /\ th[t].ret = "nil"
            /\ \E i \in 1..Len(th[t].allocated) : th[t].allocated[i].type = ResourceTypeEIP) =>
              /\ store[th[t].pod].has
              /\ store[th[t].pod].resources = th[t].allocated
              /\ Len(th[t].allocated) = 2
              /\ th[t].allocated[1].type \in {ResourceTypeENIIP, ResourceTypeENI}
              /\ th[t].allocated[2].type = ResourceTypeEIP

\* an AllocIP of a VPCENI pod under daemon mode ENIOnly has returned nil with
\* the record of an ENI and an EIP
C30_Witness ==
    \E t \in Threads :
        /\ th[t].op = "alloc" /\ th[t].pc = "unlock" /\ th[t].ret = "nil"
        /\ cfg.daemonMode = daemonModeENIOnly
        /\ Len(store[th[t].pod].resources) = 2
        /\ store[th[t].pod].resources[1].type = ResourceTypeENI
        /\ store[th[t].pod].resources[2].type = ResourceTypeEIP
        /\ th[t].podIPs = store[th[t].pod].resources[1]

\* ------------------------------------------------------------------------
\* AllocIP: the default interface
\* ------------------------------------------------------------------------
\* the step in which the AllocIP of t, past the mode test, goes through the
\* switch on the pod's type
PlanStep(t) == th[t].op = "alloc" /\ th[t].pc = "plan" /\ th'[t] # th[t]

\* the step in which the AllocIP of t leaves its last Allocate with the record
\* persisted
PersistStep(t) ==
    /\ th[t].op = "alloc" /\ th[t].pc = "inAllocate"
    /\ th'[t].pc # "inAllocate" /\ th'[t].err \notin {"allocate", "put"}

\* C31: for an ENIMultiIP pod whose CRD processing has not failed, the
\* ENI-IP Allocate is called exactly when no NetConf assembled from the
\* PodENI is on the default interface (none at all included), and when that
\* Allocate (and the EIP Allocate and the Put after it) has succeeded, one
\* NetConf with the empty interface name and DefaultRoute set is appended,
\* the only one of the list on the default interface; for a VPCENI pod with
\* IPAMType CRD no Allocate is called.
C31_DefaultInterfaceSynthesis ==
    [][\A t \in Threads :
         /\ (PlanStep(t) /\ th[t].pinfo.type = podNetworkTypeENIMultiIP) =>
               IF th'[t].crd \in {"none", "ok"}
               THEN (th'[t].pc = "inAllocate" /\ th'[t].mgr = ResourceTypeENIIP)
                       <=> OnDefaultIf(th'[t].netConf) = {}
               ELSE th'[t].pc # "inAllocate"
         /\ (PlanStep(t) /\ th[t].pinfo.type = podNetworkTypeVPCENI /\ cfg.ipamCRD) =>
               th'[t].pc # "inAllocate" /\ th'[t].allocated = <<>>
         /\ (PersistStep(t) /\ th[t].pinfo.type = podNetworkTypeENIMultiIP) =>
               /\ Len(th'[t].netConf) = Len(th[t].netConf) + 1
               /\ SubSeq(th'[t].netConf, 1, Len(th[t].netConf)) = th[t].netConf
               /\ th'[t].netConf[Len(th'[t].netConf)] = [ifName |-> "", defaultRoute |-> TRUE]
               /\ OnDefaultIf(th'[t].netConf) = {Len(th'[t].netConf)}]_vars

\* an AllocIP of an ENIMultiIP pod whose PodENI gave one NetConf on eth1 has
\* allocated an ENI-IP and returned the two NetConfs
C31_Witness ==
    \E t \in Threads :
        /\ th[t].op = "alloc" /\ th[t].pc = "unlock" /\ th[t].ret = "nil"
        /\ th[t].pinfo.type = podNetworkTypeENIMultiIP /\ th[t].crd = "ok"
        /\ Len(th[t].netConf) = 2
        /\ th[t].netConf[1].ifName = "eth1"
        /\ th[t].netConf[2] = [ifName |-> "", defaultRoute |-> TRUE]
        /\ Len(th[t].allocated) >= 1 /\ th[t].allocated[1].type = ResourceTypeENIIP

\* ------------------------------------------------------------------------
\* The pending-pod set
\* ------------------------------------------------------------------------
\* the handlers past the gate for p that have not returned
InFlight(p) == {t \in Threads : PastGate(th, t) /\ th[t].pod = p}

\* C32: a key is in pendingPods exactly when one AllocIP or ReleaseIP handler
\* that passed the gate for it has not returned, and never more than one has;
\* a handler that returns, on whatever path, removes its key; a call rejected
\* by the gate leaves the set as it is; a call for a pod without a handler in
\* flight is not rejected.
C32_PendingSet ==
    /\ [](\A p \in Pods : /\ Cardinality(InFlight(p)) <= 1
                          /\ p \in pendingPods <=> Cardinality(InFlight(p)) = 1)
    /\ [][\A t \in Threads :
            /\ (PastGate(th, t) /\ ~PastGate(th', t)) => th[t].pod \notin pendingPods'
            /\ (th[t].pc = "idle" /\ th'[t].ret = "resource processing") =>
                  pendingPods' = pendingPods
            /\ (/\ th[t].pc = "idle" /\ th'[t].op \in {"alloc", "release"}
                /\ InFlight(th'[t].pod) = {}) => th'[t].pc = "rlock"]_vars

\* an AllocIP for one pod has returned at its GetPod error and its key is
\* gone, while the handler of the other pod is in flight with its key in the set
C32_Witness ==
    \E t1, t2 \in Threads :
        /\ th[t1].op = "alloc" /\ th[t1].pc = "done" /\ th[t1].err = "getpod"
        /\ th[t1].pod \notin pendingPods
        /\ PastGate(th, t2) /\ th[t2].pod # th[t1].pod
        /\ pendingPods = {th[t2].pod}

\* ------------------------------------------------------------------------
\* The period check
\* ------------------------------------------------------------------------
\* a tick of the period check has run to its end
TickEnded == call.pc = "idle" /\ call.ended # "none"

\* how many times CHECK was invoked for the record of p during the tick
Checks(p) == Cardinality({k \in 1..Len(call.checked) : call.checked[k] = p})

\* C33 as stated: on each tick CHECK is invoked exactly once for every stored
\* record that has a netNs and never for a record without one.
C33_CheckOnEveryTick ==
    TickEnded => \A p \in Pods : Checks(p) = IF p \in call.withNs THEN 1 ELSE 0

\* C33 amended: on a tick whose resourceDB.List and whose read of the CNI
\* configuration file succeed, CHECK is invoked exactly once for every
\* listed record that has a netNs and never for a record without one, the
\* error of one CHECK not ending the loop; when either fails the tick ends
\* without any CHECK.  No step of the tick changes the store, and the read
\* lock is held during the manager call of GetResourceMapping and during
\* the listing only, never while CHECK is called or runs.
C33_CheckAfterListing ==
    /\ [](TickEnded =>
            IF call.ended = "done"
            THEN \A p \in Pods : Checks(p) = IF p \in call.withNs THEN 1 ELSE 0
            ELSE call.checked = <<>>)
    /\ [](call.pc \in {"inMapping", "listing"} => readers = 1 /\ writer # "held")
    /\ [](call.pc \in {"checking", "inCheck"} => readers = 0)
    /\ [][call' # call => store' = store]_vars

\* a tick has invoked CHECK for both records although the first CHECK failed
C33_Witness ==
    /\ TickEnded /\ call.ended = "done"
    /\ Len(call.checked) = 2
    /\ call.failed = {call.checked[1]}

\* ------------------------------------------------------------------------
\* GC: the ticks that cannot list
\* ------------------------------------------------------------------------
\* C34: a tick whose GetLocalPods or resourceDB.List fails changes no record,
\* invokes no manager and goes straight to its Unlock, after which the lock
\* is free and the goroutine waits for the next tick; no step of the GC
\* goroutine changes anything of a request handler, its result included.
C34_FailedListing ==
    /\ [](gc.err # "nil" =>
            /\ gc.pc = "unlock" /\ writer = "held"
            /\ gc.called = {} /\ gc.cleaned = {} /\ gc.relateExpireList = <<>>)
    /\ [][/\ (gc.pc = "lock" /\ gc'.err # "nil") => store' = store
          /\ (gc.pc = "unlock" /\ gc.err # "nil" /\ gc' # gc) =>
                (store' = store /\ writer' = "none" /\ gc' = IdleGC)
          /\ gc' # gc => th' = th]_vars

\* a tick has failed to list the store and is about to unlock, the record of
\* a pod still in the store and a handler waiting for the lock
C34_Witness ==
    /\ gc.pc = "unlock" /\ gc.err = "list"
    /\ \E p \in Pods : store[p].has
    /\ \E t \in Threads : th[t].pc = "rlock"

\* ------------------------------------------------------------------------
\* AllocIP: the rollback and the other actors
\* ------------------------------------------------------------------------
\* C35: from the failure of an AllocIP to the end of its rollback the handler
\* holds the read lock and its key is in pendingPods: no GC tick holds the
\* write lock, no other AllocIP or ReleaseIP for the pod is past the gate,
\* and every change of the pod's record is the handler's own.
C35_RollbackAtomic ==
    /\ [](\A t \in Threads : InRollback(t) =>
             /\ th[t].pod \in pendingPods
             /\ readers >= 1 /\ ~InTick(gc)
             /\ InFlight(th[t].pod) = {t})
    /\ [][\A t \in Threads :
            (InRollback(t) /\ store'[th[t].pod] # store[th[t].pod]) => th'[t] # th[t]]_vars

\* the rollback of a failed AllocIP is inside its Release call while a GC
\* tick waits for the lock and a second call for the same pod is rejected
C35_Witness ==
    \E t1, t2 \in Threads :
        /\ th[t1].op = "alloc" /\ th[t1].pc = "inRelease"
        /\ gc.pc = "lock"
        /\ th[t2].pod = th[t1].pod /\ th[t2].ret = "resource processing"

\* ------------------------------------------------------------------------
\* ReleaseIP: a Release that fails
\* ------------------------------------------------------------------------
\* the ReleaseIP of t has returned the error of a manager's Release
ReleaseErrored(t) ==
    /\ th[t].op = "release" /\ th[t].pc = "unlock"
    /\ th[t].ret = "error release request network resource"

\* C36: when ReleaseIP returns the error of a manager's Release (one other
\* than ErrInvalidState), the record of the pod is still in the store, also
\* when the record holds two items and the Release of the second one fails.
C36_FailedReleaseKeepsRecord ==
    \A t \in Threads : ReleaseErrored(t) => store[th[t].pod] = th[t].old

\* ------------------------------------------------------------------------
\* The lock: discipline and progress
\* ------------------------------------------------------------------------
\* the goroutines that hold the read lock: the handlers in their locked
\* section and the period check inside GetResourceMapping or its listing
ReadHolders ==
    Cardinality({t \in Threads : InSection(th, t)})
        + (IF call.pc \in {"inMapping", "listing"} THEN 1 ELSE 0)

C38_UnconfiguredSkipped ==
    /\ gc.called \subseteq Managers
    /\ gc.pc # "panic"


====
